---------------------------- MODULE Spec2Model ----------------------------
(***************************************************************************)
(* AI Browser Guard: delegation policy engine, boundary monitor, content   *)
(* script, background coordinator and detection fusion, as state machines. *)
(*                                                                         *)
(* Strings that the code inspects character by character (URLs, glob       *)
(* patterns, regular expressions) are sequences of one-character strings.  *)
(* Time is an integer clock; a date string that does not parse has no     *)
(* time (NaN in JavaScript), and every comparison with it is false.        *)
(***************************************************************************)
EXTENDS Integers, Sequences, FiniteSets, TLC

(***************************************************************************)
(* Bounds of the model.                                                    *)
(***************************************************************************)
MaxTime == 1
MaxRestrictions == 1
MaxPatterns == 1
MaxRechecks == 1
NumTabs == 1
MaxClock == 2
MaxRules == 1
MaxTasks == 1
MaxCount == 2
MaxSitePatterns == 2
MaxGlobLen == 3
MaxDetections == 2
MaxCleanups == 3
KillTabs == 2
CoordRules == 2
CoordTasks == 2
MaxSaves == 7
MaxEvents == 2

(***************************************************************************)
(* Capabilities and presets (delegation/rules.ts).                         *)
(***************************************************************************)
READ_ONLY_CAPABILITIES == <<"navigate", "read-dom">>

LIMITED_CAPABILITIES == <<"navigate", "read-dom", "click", "type-text">>

ALL_CAPABILITIES ==
  <<"navigate", "read-dom", "click", "type-text", "submit-form",
    "download-file", "open-tab", "close-tab", "screenshot",
    "execute-script", "modify-dom">>

Range(s) == {s[i] : i \in DOMAIN s}

AgentCapability == Range(ALL_CAPABILITIES)

DelegationPreset == {"readOnly", "limited", "fullAccess"}

NoRule == [null |-> TRUE]

NoTimeBound == [null |-> TRUE]

\* A rule object that reached the code without its scope field
NoScope == [missing |-> TRUE]

\* An ISO date string: new Date(d).getTime() is d.time, or NaN when d does not parse
IsoDate(t) == [valid |-> TRUE, time |-> t]

InvalidDate == [valid |-> FALSE, time |-> 0]

buildActionRestrictions(allowed) ==
  [i \in DOMAIN ALL_CAPABILITIES |->
     [capability |-> ALL_CAPABILITIES[i],
      action |-> IF ALL_CAPABILITIES[i] \in Range(allowed) THEN "allow" ELSE "block"]]

(***************************************************************************)
(* String helpers: the three String.prototype.replace calls of matchGlob   *)
(* and a matcher for the regular expressions they produce.                 *)
(***************************************************************************)
BS == "\\"

RECURSIVE Includes(_, _, _)
Includes(s, sub, i) ==
  IF i + Len(sub) - 1 > Len(s) THEN FALSE
  ELSE IF SubSeq(s, i, i + Len(sub) - 1) = sub THEN TRUE
  ELSE Includes(s, sub, i + 1)

RECURSIVE IndexOf(_, _, _)
IndexOf(s, sub, i) ==
  IF i + Len(sub) - 1 > Len(s) THEN 0
  ELSE IF SubSeq(s, i, i + Len(sub) - 1) = sub THEN i
  ELSE IndexOf(s, sub, i + 1)

\* s.replace(/<one of chars>/g, '\\$&')
RECURSIVE EscapeChars(_, _)
EscapeChars(s, chars) ==
  IF s = <<>> THEN <<>>
  ELSE IF Head(s) \in chars
       THEN <<BS, Head(s)>> \o EscapeChars(Tail(s), chars)
       ELSE <<Head(s)>> \o EscapeChars(Tail(s), chars)

\* s.replace(/<sub>/g, <by>) for a literal, non-empty sub: leftmost, non-overlapping
RECURSIVE ReplaceAll(_, _, _)
ReplaceAll(s, sub, by) ==
  IF Len(s) < Len(sub) THEN s
  ELSE IF SubSeq(s, 1, Len(sub)) = sub
       THEN by \o ReplaceAll(SubSeq(s, Len(sub) + 1, Len(s)), sub, by)
       ELSE <<Head(s)>> \o ReplaceAll(Tail(s), sub, by)

UrlChars == {"h", "a", "b", "c", "s", "e", "o", "x", ".", ":", "/", "+"}

NonDotChars == UrlChars \ {"."}

\* The characters escaped in a pattern that holds a scheme: [.+^${}()|[\]\\]
FullUrlEscaped == {".", "+", "^", "$", "{", "}", "(", ")", "|", "[", "]", BS}

SyntaxError == <<[error |-> TRUE]>>

\* new RegExp(src): a sequence of atoms [class, star], or SyntaxError.
\* The fragment that matchGlob produces from the modelled pattern alphabet:
\* escaped characters, '.', '[^.]', literal characters, and the quantifier '*'.
RECURSIVE ParseRegex(_)
ParseRegex(src) ==
  IF src = <<>> THEN <<>>
  ELSE
    LET first == Head(src)
        atomLen == IF first = BS THEN 2
                   ELSE IF first = "[" THEN 4
                   ELSE 1
        class == IF first = BS THEN {src[2]}
                 ELSE IF first = "[" THEN NonDotChars
                 ELSE IF first = "." THEN UrlChars
                 ELSE {first}
    IN  IF first = "*" \/ Len(src) < atomLen THEN SyntaxError
        ELSE
          LET starred == Len(src) > atomLen /\ src[atomLen + 1] = "*"
              used == IF starred THEN atomLen + 1 ELSE atomLen
              rest == ParseRegex(SubSeq(src, used + 1, Len(src)))
          IN  IF rest = SyntaxError THEN SyntaxError
              ELSE <<[class |-> class, star |-> starred]>> \o rest

\* Whether atoms[i..] matches exactly s[j..]  (the regex is anchored by ^ and $)
RECURSIVE MatchFrom(_, _, _, _)
MatchFrom(atoms, i, s, j) ==
  IF i > Len(atoms) THEN j > Len(s)
  ELSE IF atoms[i].star
       THEN \/ MatchFrom(atoms, i + 1, s, j)
            \/ /\ j <= Len(s)
               /\ s[j] \in atoms[i].class
               /\ MatchFrom(atoms, i, s, j + 1)
       ELSE /\ j <= Len(s)
            /\ s[j] \in atoms[i].class
            /\ MatchFrom(atoms, i + 1, s, j + 1)

\* new RegExp(`^${regexStr}$`).test(subject); a SyntaxError is thrown to the caller
RegexTest(regexStr, subject) ==
  LET atoms == ParseRegex(regexStr)
  IN  IF atoms = SyntaxError THEN "throws"
      ELSE IF MatchFrom(atoms, 1, subject, 1) THEN "true" ELSE "false"

NoHost == <<[invalid |-> TRUE]>>

\* new URL(url).hostname: the text between "://" and the next "/";
\* a string without a scheme does not parse (TypeError)
ParseHostname(url) ==
  LET at == IndexOf(url, <<":", "/", "/">>, 1)
  IN  IF at <= 1 THEN NoHost
      ELSE LET rest == SubSeq(url, at + 3, Len(url))
               slash == IndexOf(rest, <<"/">>, 1)
           IN  IF slash = 0 THEN rest ELSE SubSeq(rest, 1, slash - 1)

matchGlob(url, pattern) ==
  IF ~Includes(pattern, <<":", "/", "/">>, 1)
  THEN LET hostname == ParseHostname(url)
           regexStr == ReplaceAll(
                         ReplaceAll(EscapeChars(pattern, {"."}),
                                    <<"*", "*">>, <<".", "*">>),
                         <<"*">>, <<"[", "^", ".", "]", "*">>)
       IN  IF hostname = NoHost THEN FALSE
           ELSE RegexTest(regexStr, hostname) = "true"
  ELSE LET regexStr == ReplaceAll(EscapeChars(pattern, FullUrlEscaped),
                                  <<BS, "*">>, <<".", "*">>)
       IN  RegexTest(regexStr, url) = "true"

(***************************************************************************)
(* Policy evaluation (delegation/rules.ts).                                *)
(***************************************************************************)
RECURSIVE evaluateSitePatternsFrom(_, _, _, _)
evaluateSitePatternsFrom(url, patterns, defaultAction, i) ==
  IF i > Len(patterns)
  THEN [allowed |-> defaultAction = "allow", matched |-> 0]
  ELSE IF matchGlob(url, patterns[i].pattern)
       THEN [allowed |-> patterns[i].action = "allow", matched |-> i]
       ELSE evaluateSitePatternsFrom(url, patterns, defaultAction, i + 1)

evaluateSitePatternsLastMatch(url, patterns, defaultAction) ==
  LET matching == {i \in DOMAIN patterns : matchGlob(url, patterns[i].pattern)}
      i == CHOOSE k \in matching : \A j \in matching : j <= k
  IN  IF matching = {} THEN [allowed |-> defaultAction = "allow", matched |-> 0]
      ELSE [allowed |-> patterns[i].action = "allow", matched |-> i]

evaluateSitePatterns(url, patterns, defaultAction) ==
  evaluateSitePatternsFrom(url, patterns, defaultAction, 1)

\* restrictions.find((r) => r.capability === action): the first entry, 0 if none
RECURSIVE FindRestriction(_, _, _)
FindRestriction(action, restrictions, i) ==
  IF i > Len(restrictions) THEN 0
  ELSE IF restrictions[i].capability = action THEN i
  ELSE FindRestriction(action, restrictions, i + 1)

evaluateActionRestrictionsAllowUnlisted(action, restrictions) ==
  LET i == FindRestriction(action, restrictions, 1)
  IN  IF i = 0 THEN [allowed |-> TRUE, matched |-> 0]
      ELSE [allowed |-> restrictions[i].action = "allow", matched |-> i]

evaluateActionRestrictions(action, restrictions) ==
  LET i == FindRestriction(action, restrictions, 1)
  IN  IF i = 0 THEN [allowed |-> FALSE, matched |-> 0]
      ELSE [allowed |-> restrictions[i].action = "allow", matched |-> i]

isTimeBoundExpiredNever(timeBound, now) == FALSE

\* now > NaN is false: a time bound whose expiresAt does not parse never expires
isTimeBoundExpired(timeBound, now) ==
  IF timeBound = NoTimeBound THEN FALSE
  ELSE timeBound.expiresAt.valid /\ now > timeBound.expiresAt.time

Throws == [threw |-> TRUE, allowed |-> FALSE, reason |-> "TypeError"]

Decision(allowed, reason) == [threw |-> FALSE, allowed |-> allowed, reason |-> reason]

REASON_NOT_ACTIVE == "Delegation rule is not active."

REASON_EXPIRED == "Delegation has expired."

REASON_SITE_MATCHED == "URL blocked by site policy (matched: <pattern>)."

REASON_SITE_DEFAULT == "URL blocked by site policy (default policy)."

REASON_ACTION == "Action <action> is not permitted under <preset> delegation."

REASON_PERMITTED == "Action permitted by delegation rules."

REASON_NO_RULE == "No active delegation rule. All actions are blocked by default."

REASON_NO_LONGER_ACTIVE == "Delegation rule is no longer active."

\* reason.includes('expired')
MentionsExpired(reason) == reason \in {REASON_EXPIRED}

\* Reading rule.scope.timeBound of a rule without scope is a TypeError
evaluateRule(rule, action, url, now) ==
  IF ~rule.isActive THEN Decision(FALSE, REASON_NOT_ACTIVE)
  ELSE IF rule.scope = NoScope THEN Throws
  ELSE IF isTimeBoundExpired(rule.scope.timeBound, now)
       THEN Decision(FALSE, REASON_EXPIRED)
  ELSE
    LET defaultSiteAction == IF rule.preset = "limited" THEN "block" ELSE "allow"
        siteResult == evaluateSitePatterns(url, rule.scope.sitePatterns, defaultSiteAction)
        actionResult == evaluateActionRestrictions(action, rule.scope.actionRestrictions)
    IN  IF ~siteResult.allowed
        THEN Decision(FALSE, IF siteResult.matched # 0 THEN REASON_SITE_MATCHED
                             ELSE REASON_SITE_DEFAULT)
        ELSE IF ~actionResult.allowed
             THEN Decision(FALSE, REASON_ACTION)
             ELSE Decision(TRUE, REASON_PERMITTED)

(***************************************************************************)
(* Boundary check (content/monitor.ts).                                    *)
(***************************************************************************)
isDelegationExpired(rule, now) == isTimeBoundExpired(rule.scope.timeBound, now)

checkBoundaryNoRuleAllowed(action, url, rule, now) ==
  IF rule = NoRule THEN Decision(TRUE, REASON_PERMITTED)
  ELSE IF ~rule.isActive THEN Decision(FALSE, REASON_NO_LONGER_ACTIVE)
  ELSE IF rule.scope = NoScope THEN Throws
  ELSE IF isTimeBoundExpired(rule.scope.timeBound, now) THEN Decision(FALSE, REASON_EXPIRED)
  ELSE evaluateRule(rule, action, url, now)

checkBoundary(action, url, rule, now) ==
  IF rule = NoRule THEN Decision(FALSE, REASON_NO_RULE)
  ELSE IF ~rule.isActive THEN Decision(FALSE, REASON_NO_LONGER_ACTIVE)
  ELSE IF rule.scope = NoScope THEN Throws
  ELSE IF isDelegationExpired(rule, now) THEN Decision(FALSE, REASON_EXPIRED)
  ELSE evaluateRule(rule, action, url, now)

(***************************************************************************)
(* Signal probes (detection/webdriver.ts, cdp-patterns.ts, automation.ts). *)
(* page is what the probes read from the host page:                        *)
(*   webdriver   navigator.webdriver: "true", "overridden" (an own         *)
(*               property set to false) or "absent"                        *)
(*   noPlugins, noLanguages   navigator.plugins / languages are empty      *)
(*   selenium    number of Selenium markers on document and window         *)
(*   cdp         the CDP indicators found on window                        *)
(*   computerUse, operator    number of framework markers on window        *)
(*   generic     number of generic headless indicators                     *)
(***************************************************************************)
CONFIDENCE_ORDER == <<"low", "medium", "high", "confirmed">>

DetectionConfidence == Range(CONFIDENCE_ORDER)

\* CONFIDENCE_ORDER.indexOf(c)
confidenceRank(c) == (CHOOSE i \in DOMAIN CONFIDENCE_ORDER : CONFIDENCE_ORDER[i] = c) - 1

RECURSIVE maxConfidenceFrom(_, _, _)
maxConfidenceFrom(confidences, i, best) ==
  IF i > Len(confidences) THEN best
  ELSE maxConfidenceFrom(confidences, i + 1,
         IF confidenceRank(confidences[i]) > confidenceRank(best)
         THEN confidences[i] ELSE best)

\* confidences.reduce(..., 'low')
maxConfidence(confidences) == maxConfidenceFrom(confidences, 1, "low")

Signal(detected, method, confidence, frameworkType) ==
  [detected |-> detected, method |-> method, confidence |-> confidence,
   frameworkType |-> frameworkType]

detectWebDriverFlag(page) ==
  IF page.webdriver = "true" THEN Signal(TRUE, "webdriver-flag", "high", "none")
  ELSE IF page.webdriver = "overridden" THEN Signal(TRUE, "webdriver-flag", "medium", "none")
  ELSE Signal(FALSE, "webdriver-flag", "low", "none")

detectNavigatorAnomalies(page) ==
  LET detected == page.noPlugins \/ page.noLanguages
  IN  Signal(detected, "automation-flag", IF detected THEN "medium" ELSE "low", "none")

detectSeleniumMarkers(page) ==
  Signal(page.selenium > 0, "framework-fingerprint",
         IF page.selenium > 0 THEN "confirmed" ELSE "low", "none")

CdpIndicators == {"__cdp_binding", "__playwright", "DevToolsAPI"}

detectCdpConnection(page) ==
  LET n == Cardinality(page.cdp)
  IN  [detected |-> n > 0, method |-> "cdp-connection",
       confidence |-> IF n > 0 THEN (IF n >= 2 THEN "confirmed" ELSE "high") ELSE "low",
       frameworkType |-> "none", found |-> page.cdp]

detectAnthropicComputerUse(page) ==
  Signal(page.computerUse > 0, "framework-fingerprint",
         IF page.computerUse > 0 THEN "high" ELSE "low", "anthropic-computer-use")

detectOpenAIOperator(page) ==
  Signal(page.operator > 0, "framework-fingerprint",
         IF page.operator > 0 THEN "high" ELSE "low", "openai-operator")

detectGenericAutomation(page) ==
  LET detected == page.generic >= 2
  IN  Signal(detected, "automation-flag", IF detected THEN "medium" ELSE "low",
             IF detected THEN "cdp-generic" ELSE "unknown")

\* The detected results only, in the order computer-use, operator, generic
detectAllFrameworks(page) ==
  LET IsDetected(r) == r.detected
  IN  SelectSeq(<<detectAnthropicComputerUse(page), detectOpenAIOperator(page),
                  detectGenericAutomation(page)>>, IsDetected)

(***************************************************************************)
(* Behavioral analysis (detection/behavioral.ts).  A buffer of events is   *)
(* given by its length and the statistics the analysis computes from it:   *)
(* standard deviations and means in milliseconds or pixels, ratios in      *)
(* percent.                                                                *)
(***************************************************************************)
MinimumEventsRequired == 20

MinimumClicksRequired == 5

MouseIntervalStdDevMin == 15

IntegerCoordinateRatioMax == 95

KeyIntervalStdDevMin == 20

SyntheticEventRatioMax == 50

SyntheticEventRatioHigh == 80

MinKeydowns == 5

SuperhumanKeyInterval == 30

ClickStdDevMax == 2

ClickMeanOffsetMax == 3

BehavioralResult(detected, method, confidence) ==
  [detected |-> detected, method |-> method, confidence |-> confidence]

Count(flags) == Cardinality({i \in DOMAIN flags : flags[i]})

analyzeMouseBehaviorNoMinimum(events) ==
  LET anomalies == Count(<<events.intervalStdDev < MouseIntervalStdDevMin,
                           events.integerRatio > IntegerCoordinateRatioMax,
                           events.syntheticRatio > SyntheticEventRatioMax>>)
  IN  BehavioralResult(anomalies > 0, "behavioral-timing",
        IF anomalies >= 3 THEN "high"
        ELSE IF anomalies >= 2 THEN "medium" ELSE "low")

analyzeMouseBehavior(events) ==
  IF events.n < MinimumEventsRequired
  THEN BehavioralResult(FALSE, "behavioral-timing", "low")
  ELSE LET anomalies == Count(<<events.intervalStdDev < MouseIntervalStdDevMin,
                                events.integerRatio > IntegerCoordinateRatioMax,
                                events.syntheticRatio > SyntheticEventRatioMax>>)
       IN  BehavioralResult(anomalies > 0, "behavioral-timing",
             IF anomalies >= 3 THEN "high"
             ELSE IF anomalies >= 2 THEN "medium" ELSE "low")

analyzeKeyboardBehavior(events) ==
  IF events.n < MinimumEventsRequired
  THEN BehavioralResult(FALSE, "behavioral-typing", "low")
  ELSE LET anomalies ==
             Count(<<events.intervalStdDev < KeyIntervalStdDevMin
                       /\ events.keydowns > MinKeydowns,
                     events.syntheticRatio > SyntheticEventRatioMax,
                     events.averageInterval > 0
                       /\ events.averageInterval < SuperhumanKeyInterval
                       /\ events.keydowns > MinKeydowns>>)
       IN  BehavioralResult(anomalies > 0, "behavioral-typing",
             IF events.syntheticRatio > SyntheticEventRatioHigh THEN "high"
             ELSE IF anomalies >= 2 THEN "medium" ELSE "low")

analyzeClickPrecision(clicks) ==
  IF clicks.n < MinimumClicksRequired
  THEN BehavioralResult(FALSE, "behavioral-precision", "low")
  ELSE LET detected == clicks.stdDev < ClickStdDevMax /\ clicks.meanOffset < ClickMeanOffsetMax
       IN  BehavioralResult(detected, "behavioral-precision",
                            IF detected THEN "medium" ELSE "low")

NoAnalysis == [null |-> TRUE]

\* results: the non-null sub-analysis results, in the order mouse, keyboard, click
aggregateBehavioralAnalysis(mouseResult, keyboardResult, clickResult) ==
  LET NotNull(r) == r # NoAnalysis
      IsDetected(r) == r.detected
      results == SelectSeq(<<mouseResult, keyboardResult, clickResult>>, NotNull)
      detectedResults == SelectSeq(results, IsDetected)
      detectedCount == Len(detectedResults)
      best == CHOOSE i \in DOMAIN results :
                /\ \A j \in DOMAIN results :
                     confidenceRank(results[j].confidence) <= confidenceRank(results[i].confidence)
                /\ \A j \in 1..(i - 1) :
                     confidenceRank(results[j].confidence) < confidenceRank(results[i].confidence)
  IN  IF results = <<>> THEN BehavioralResult(FALSE, "behavioral-timing", "low")
      ELSE BehavioralResult(detectedCount > 0, results[best].method,
             IF detectedCount >= 3 THEN "confirmed"
             ELSE IF detectedCount >= 2 THEN "high"
             ELSE IF detectedCount = 1 THEN detectedResults[1].confidence
             ELSE "low")

(***************************************************************************)
(* Detection fusion (content/detector.ts).                                 *)
(***************************************************************************)
BehavioralSampleSize == 20

DetectorConfig == [enableBehavioral : BOOLEAN, minimumConfidence : DetectionConfidence]

DEFAULT_DETECTOR_CONFIG == [enableBehavioral |-> TRUE, minimumConfidence |-> "low"]

\* The positive probe results of one sweep, in the order of detectedResults
DetectedResults(page) ==
  LET IsDetected(r) == r.detected
  IN  SelectSeq(<<detectWebDriverFlag(page), detectNavigatorAnomalies(page),
                  detectSeleniumMarkers(page),
                  Signal(detectCdpConnection(page).detected, "cdp-connection",
                         detectCdpConnection(page).confidence, "none")>>, IsDetected)
      \o detectAllFrameworks(page)

\* 'Playwright' / 'Puppeteer' as substrings of the CDP detail string, which
\* lists the found indicator names: none of the modelled names holds either
DetailIncludes(found, word) == FALSE

classifyAgentType(cdpResult, webDriverResult, frameworkResults, behavioralResult) ==
  LET Named(r) == r.detected /\ r.frameworkType # "unknown"
      named == SelectSeq(frameworkResults, Named)
  IN  IF named # <<>> THEN named[1].frameworkType
      ELSE IF cdpResult.detected
           THEN (IF DetailIncludes(cdpResult.found, "Playwright") THEN "playwright"
                 ELSE IF DetailIncludes(cdpResult.found, "Puppeteer") THEN "puppeteer"
                 ELSE "cdp-generic")
      ELSE IF webDriverResult.detected THEN "webdriver-generic"
      ELSE "unknown"

Methods(results) == [i \in DOMAIN results |-> results[i].method]

Confidences(results) == [i \in DOMAIN results |-> results[i].confidence]

EscalateNoUpgrade(base, count) == base

\* Multiple signals upgrade confidence
Escalate(base, count) ==
  IF count >= 3 /\ confidenceRank(base) < confidenceRank("confirmed") THEN "confirmed"
  ELSE IF count >= 2 /\ confidenceRank(base) < confidenceRank("high") THEN "high"
  ELSE base

\* The verdict of one sweep. agentId is the id given to the agent it creates
\* (crypto.randomUUID()), 0 when it creates none.
runDetectionSweep(page, cfg, agentId) ==
  LET webDriverResult == detectWebDriverFlag(page)
      navigatorResult == detectNavigatorAnomalies(page)
      seleniumResult == detectSeleniumMarkers(page)
      cdpResult == detectCdpConnection(page)
      frameworkResults == detectAllFrameworks(page)
      IsDetected(r) == r.detected
      methods == Methods(SelectSeq(<<webDriverResult, navigatorResult, seleniumResult,
                                     cdpResult>>, IsDetected))
                 \o Methods(frameworkResults)
      detectedCount == Len(DetectedResults(page))
      agentDetected == detectedCount > 0
      \* navigatorResult counts as a detected result; its confidence is not collected
      confidences == Confidences(SelectSeq(<<webDriverResult, seleniumResult, cdpResult>>,
                                           IsDetected))
                     \o Confidences(frameworkResults)
      overallConfidence == IF agentDetected
                           THEN Escalate(maxConfidence(confidences), detectedCount)
                           ELSE "low"
      belowThreshold == agentDetected
                        /\ confidenceRank(overallConfidence) < confidenceRank(cfg.minimumConfidence)
      reported == agentDetected /\ ~belowThreshold
  IN  [agentDetected |-> reported,
       agentId |-> IF reported THEN agentId ELSE 0,
       agentType |-> IF reported
                     THEN classifyAgentType(cdpResult, webDriverResult, frameworkResults,
                                            NoAnalysis)
                     ELSE "unknown",
       overallConfidence |-> overallConfidence,
       methods |-> methods,
       behavioralResult |-> NoAnalysis]

\* The body of the periodic re-check up to the duplicate filter: one sweep,
\* then the behavioral analysis of the collected buffers
RecheckVerdict(page, cfg, mouseEvents, keyEvents, clickPrecisionData, agentId) ==
  LET result == runDetectionSweep(page, cfg, agentId)
  IN  IF cfg.enableBehavioral /\ mouseEvents.n >= BehavioralSampleSize
      THEN LET mouseResult == analyzeMouseBehavior(mouseEvents)
               keyResult == IF keyEvents.n >= BehavioralSampleSize
                            THEN analyzeKeyboardBehavior(keyEvents) ELSE NoAnalysis
               clickResult == IF clickPrecisionData.n >= MinimumClicksRequired
                              THEN analyzeClickPrecision(clickPrecisionData) ELSE NoAnalysis
               behavioralResult == aggregateBehavioralAnalysis(mouseResult, keyResult,
                                                               clickResult)
           IN  IF behavioralResult.detected /\ ~result.agentDetected
               THEN [result EXCEPT !.behavioralResult = behavioralResult,
                                   !.agentDetected = TRUE,
                                   !.overallConfidence = behavioralResult.confidence,
                                   !.methods = Append(@, behavioralResult.method)]
               ELSE [result EXCEPT !.behavioralResult = behavioralResult]
      ELSE result

(***************************************************************************)
(* State.                                                                  *)
(*   ev   one call of the policy engine: its arguments and its result      *)
(*   det  one detection monitor: the page it probes, its configuration,    *)
(*        its event buffers, lastDetectedAgentId and the last verdict      *)
(***************************************************************************)
\* ev:      one call of the policy engine (input, then result)
\* det:     one detection monitor (detector.ts)
\* clock:   the time read by new Date() and Date.now()
\* state:   the coordinator's module state (background/index.ts)
\* tasks:   the coordinator's async handlers that are suspended at an await
\* content: per tab, the module state of its content script (content/index.ts,
\*          content/monitor.ts, killswitch/index.ts)
\* last:    what the boundary monitor did with the page event or DOM mutation
\*          of the step that led to this state, if it was one
\* killed:  ids of the rules that were active when a kill switch that has
\*          since marked the rules was invoked
VARIABLES ev, det, clock, state, tasks, content, last, killed

mainVars == <<clock, state, tasks, content, last, killed>>

vars == <<ev, det, clock, state, tasks, content, last, killed>>

EvIdle == [pc |-> "idle"]

DetIdle == [pc |-> "idle"]

\* chrome.tabs.query({}): the tabs of the browser, each with its content
\* script context or without one
Tabs == DOMAIN content

\* let monitorState = { activeRule: null, isMonitoring: false, ... }
InitialMonitorState ==
  [activeRule |-> NoRule, isMonitoring |-> FALSE, allowedCount |-> 0,
   blockedCount |-> 0, recentViolations |-> <<>>]

NullCleanup == [null |-> TRUE]

\* The STATUS_QUERY of a content script: not sent, sent, answered by the
\* coordinator with response, or response handled
NoQuery == [pc |-> "none", response |-> [activeDelegation |-> NoRule]]

\* A tab whose content script has not been injected yet
ContentAbsent ==
  [phase |-> "absent", body |-> FALSE, monitorState |-> InitialMonitorState,
   monitorCleanup |-> NullCleanup, registeredCleanups |-> <<>>,
   listeners |-> 0, observers |-> 0, statusQuery |-> NoQuery]

\* killSwitch.lastEvent: null
NoEvent == [null |-> TRUE]

\* const state: BackgroundState = { activeAgents, activeSessions,
\* delegationRules: [], killSwitch: createInitialKillSwitchState(),
\* recentAlerts: [], ... }.
\* A Map is the sequence of its <<key, value>> entries in insertion order:
\* activeAgents holds <<tabId, agent id>>, activeSessions <<tabId, session id>>.
InitialState ==
  [activeAgents |-> <<>>, activeSessions |-> <<>>, delegationRules |-> <<>>,
   killSwitch |-> [isActive |-> FALSE, lastEvent |-> NoEvent], recentAlerts |-> <<>>]

\* map.set(key, value), map.delete(key), Array.from(map.values()), map.get(key)
MapHas(map, key) == \E i \in DOMAIN map : map[i][1] = key

MapSet(map, key, value) ==
  IF MapHas(map, key)
  THEN [i \in DOMAIN map |-> IF map[i][1] = key THEN <<key, value>> ELSE map[i]]
  ELSE Append(map, <<key, value>>)

MapDelete(map, key) == SelectSeq(map, LAMBDA e : e[1] # key)

MapValues(map) == [i \in DOMAIN map |-> map[i][2]]

\* map.get(key) for a key the map holds
MapGet(map, key) == map[CHOOSE i \in DOMAIN map : map[i][1] = key][2]

NoAction == [kind |-> "none"]

MainIdle ==
  /\ clock = 0
  /\ state = InitialState
  /\ tasks = <<>>
  /\ content = [t \in 1..NumTabs |-> ContentAbsent]
  /\ last = NoAction
  /\ killed = {}

(***************************************************************************)
(* Inputs of the policy-engine specification.                              *)
(***************************************************************************)
U_SUB == <<"h", ":", "/", "/", "s", ".", "e", ".", "c", "/", "x">>

U_APEX == <<"h", ":", "/", "/", "e", ".", "c", "/">>

U_OTHER == <<"h", ":", "/", "/", "o", ".", "c", "/", "x">>

U_NOSCHEME == <<"s", ".", "e", ".", "c">>

TestUrls == {U_SUB, U_APEX, U_OTHER, U_NOSCHEME}

P_ONE_LABEL == <<"*", ".", "e", ".", "c">>

P_ANY_LABELS == <<"*", "*", ".", "e", ".", "c">>

P_HOST == <<"e", ".", "c">>

P_FULL_URL == <<"h", ":", "/", "/", "e", ".", "c", "/", "*">>

TestPatterns == {P_ONE_LABEL, P_ANY_LABELS, P_HOST, P_FULL_URL}

SeqsUpTo(S, n) == UNION {[1..k -> S] : k \in 0..n}

SitePattern == [pattern : TestPatterns, action : {"allow", "block"}]

CustomCapabilities == {"click", "navigate", "modify-dom"}

ActionRestriction == [capability : CustomCapabilities, action : {"allow", "block"}]

PresetCapabilities(preset) ==
  IF preset = "readOnly" THEN READ_ONLY_CAPABILITIES
  ELSE IF preset = "limited" THEN LIMITED_CAPABILITIES
  ELSE ALL_CAPABILITIES

TimeBounds == {NoTimeBound, [expiresAt |-> IsoDate(0)], [expiresAt |-> InvalidDate]}

Rule(id, preset, patterns, restrictions, timeBound, isActive) ==
  [id |-> id, preset |-> preset,
   scope |-> [sitePatterns |-> patterns, actionRestrictions |-> restrictions,
              timeBound |-> timeBound],
   isActive |-> isActive]

\* Rules with any restriction list, and rules with any site-pattern list
EvalRules ==
  {Rule(1, p, sp, ar, tb, act) :
     p \in DelegationPreset,
     sp \in {<<>>, <<[pattern |-> P_ONE_LABEL, action |-> "allow"]>>,
             <<[pattern |-> P_ONE_LABEL, action |-> "block"]>>},
     ar \in SeqsUpTo(ActionRestriction, MaxRestrictions),
     tb \in TimeBounds, act \in BOOLEAN}
  \cup
  {Rule(1, p, sp, buildActionRestrictions(PresetCapabilities(p)), tb, act) :
     p \in DelegationPreset, sp \in SeqsUpTo(SitePattern, MaxPatterns),
     tb \in TimeBounds, act \in BOOLEAN}

NoResult == [threw |-> FALSE, allowed |-> FALSE, reason |-> "none"]

InitRule ==
  /\ det = DetIdle
  /\ MainIdle
  /\ ev \in [pc : {"input"}, rule : EvalRules \cup {NoRule}, action : AgentCapability,
          url : TestUrls, now : 0..MaxTime, result : {NoResult}]

\* evaluateRule(rule, action, url) at time ev.now
EvaluateRuleCall ==
  /\ ev.pc = "input"
  /\ ev.rule # NoRule
  /\ ev' = [ev EXCEPT !.pc = "evaluated",
                      !.result = evaluateRule(ev.rule, ev.action, ev.url, ev.now)]
  /\ UNCHANGED <<det, mainVars>>

\* checkBoundary(action, url, rule) at time ev.now
CheckBoundaryCall ==
  /\ ev.pc = "input"
  /\ ev' = [ev EXCEPT !.pc = "checked",
                      !.result = checkBoundary(ev.action, ev.url, ev.rule, ev.now)]
  /\ UNCHANGED <<det, mainVars>>

NextRule == EvaluateRuleCall \/ CheckBoundaryCall

SpecRule == InitRule /\ [][NextRule]_vars

HasRestriction(rule, c) == FindRestriction(c, rule.scope.actionRestrictions, 1) # 0

\* C1: for every rule and every capability that has no entry in the rule's
\* actionRestrictions, evaluateRule returns allowed = false for every url.
C1_UnlistedCapabilityDenied ==
  (ev.pc = "evaluated" /\ ~HasRestriction(ev.rule, ev.action)) => ~ev.result.allowed

\* C1 witness: an active, unexpired rule whose site policy lets the url through
\* was evaluated for a capability it does not list, and denied for that reason.
C1_Witness ==
  /\ ev.pc = "evaluated"
  /\ ~HasRestriction(ev.rule, ev.action)
  /\ ev.rule.scope.actionRestrictions # <<>>
  /\ ev.result.reason = REASON_ACTION

ExpiresInPast(rule, now) ==
  /\ rule.scope.timeBound # NoTimeBound
  /\ rule.scope.timeBound.expiresAt.valid
  /\ rule.scope.timeBound.expiresAt.time < now

\* C4 as stated: every rule whose expiresAt is in the past evaluates to
\* allowed = false with a reason that mentions "expired".
C4_ExpiredDeniedMentionsExpired ==
  (ev.pc = "evaluated" /\ ExpiresInPast(ev.rule, ev.now))
    => (~ev.result.allowed /\ MentionsExpired(ev.result.reason))

\* C4 amended: every rule whose expiresAt is in the past evaluates to
\* allowed = false; the reason mentions "expired" when the rule is active, and
\* is the "not active" reason when it is not.
C4_ExpiredDenied ==
  (ev.pc = "evaluated" /\ ExpiresInPast(ev.rule, ev.now))
    => /\ ~ev.result.allowed
       /\ ev.rule.isActive => MentionsExpired(ev.result.reason)
       /\ ~ev.rule.isActive => ev.result.reason = REASON_NOT_ACTIVE

\* C4 witness: an active fullAccess rule past its expiresAt was evaluated
C4_Witness ==
  /\ ev.pc = "evaluated"
  /\ ExpiresInPast(ev.rule, ev.now)
  /\ ev.rule.isActive
  /\ ev.rule.preset = "fullAccess"
  /\ MentionsExpired(ev.result.reason)

\* C18: when an evaluation denies because the rule's time bound has passed, the
\* rule the caller holds is inactive (isActive = false) once the evaluation has
\* returned.
C18_ExpiredEvaluationDeactivates ==
  (ev.pc \in {"evaluated", "checked"} /\ ~ev.result.threw
     /\ ev.result.reason = REASON_EXPIRED) => ~ev.rule.isActive

(***************************************************************************)
(* The policy engine on active, unbounded rules of each preset with every  *)
(* site-pattern list of up to MaxSitePatterns entries.                     *)
(***************************************************************************)
SiteRules ==
  {Rule(1, p, sp, buildActionRestrictions(PresetCapabilities(p)), NoTimeBound, TRUE) :
     p \in DelegationPreset, sp \in SeqsUpTo(SitePattern, MaxSitePatterns)}

InitSite ==
  /\ det = DetIdle
  /\ MainIdle
  /\ ev \in [pc : {"input"}, rule : SiteRules, action : {"navigate", "click"},
              url : TestUrls, now : {0}, result : {NoResult}]

SpecSite == InitSite /\ [][NextRule]_vars

\* The index of the first pattern whose glob matches the url, 0 if none does
FirstMatch(url, patterns) ==
  LET matching == {i \in DOMAIN patterns : matchGlob(url, patterns[i].pattern)}
  IN  IF matching = {} THEN 0 ELSE CHOOSE i \in matching : \A j \in matching : i <= j

SiteReasons == {REASON_SITE_MATCHED, REASON_SITE_DEFAULT}

\* C14: the first pattern, in array order, whose glob matches the target decides
\* the site outcome whatever later patterns say (block: the evaluation denies
\* for that pattern; allow: the site policy lets the target through); when no
\* pattern matches, a Limited rule denies by default and ReadOnly and
\* FullAccess rules let the target through.
C14_FirstMatchWins ==
  (ev.pc = "evaluated" /\ ev.rule.isActive /\ ev.rule.scope.timeBound = NoTimeBound) =>
    LET patterns == ev.rule.scope.sitePatterns
        i == FirstMatch(ev.url, patterns)
        blockedBySite == ~ev.result.allowed /\ ev.result.reason \in SiteReasons
    IN  IF i # 0
        THEN IF patterns[i].action = "block"
             THEN ~ev.result.allowed /\ ev.result.reason = REASON_SITE_MATCHED
             ELSE ~blockedBySite
        ELSE IF ev.rule.preset = "limited"
             THEN ~ev.result.allowed /\ ev.result.reason = REASON_SITE_DEFAULT
             ELSE ~blockedBySite

\* Two patterns that both match the target and disagree: the first one, which
\* allows, decided
C14_Witness ==
  /\ ev.pc = "evaluated"
  /\ Len(ev.rule.scope.sitePatterns) = 2
  /\ \A i \in 1..2 : matchGlob(ev.url, ev.rule.scope.sitePatterns[i].pattern)
  /\ ev.rule.scope.sitePatterns[1].action = "allow"
  /\ ev.rule.scope.sitePatterns[2].action = "block"
  /\ ev.rule.preset = "limited"
  /\ ev.result.allowed

(***************************************************************************)
(* matchGlob on its own: every pattern of up to MaxGlobLen characters of a *)
(* small alphabet, without a scheme and behind the scheme "h://", and the  *)
(* patterns of the policy-engine specification.                            *)
(***************************************************************************)
U_DEEP == <<"h", ":", "/", "/", "a", ".", "s", ".", "e", ".", "c", "/", "x">>

P_STAR_SCHEME == <<"*", ":", "/", "/", "e", ".", "c", "/">>

HostPatterns == SeqsUpTo({"*", ".", "e", "c"}, MaxGlobLen) \cup {P_ONE_LABEL, P_ANY_LABELS, P_HOST}

UrlPatterns ==
  {<<"h", ":", "/", "/">> \o body : body \in SeqsUpTo({"*", ".", "e", "c", "/", "+"}, MaxGlobLen)}
    \cup {P_FULL_URL, P_STAR_SCHEME}

InitGlob ==
  /\ det = DetIdle
  /\ MainIdle
  /\ ev \in [pc : {"input"}, url : TestUrls \cup {U_DEEP},
              pattern : HostPatterns \cup UrlPatterns, result : {FALSE}]

MatchGlobCall ==
  /\ ev.pc = "input"
  /\ ev' = [ev EXCEPT !.pc = "matched", !.result = matchGlob(ev.url, ev.pattern)]
  /\ UNCHANGED <<det, mainVars>>

SpecGlob == InitGlob /\ [][MatchGlobCall]_vars

\* Whether glob[i..] matches exactly s[j..] when "**" stands for any characters,
\* a single "*" for any characters of the set single, and every other character
\* for itself
RECURSIVE GlobMatches(_, _, _, _, _, _)
GlobMatches(glob, i, s, j, single, double) ==
  IF i > Len(glob) THEN j > Len(s)
  ELSE IF double /\ glob[i] = "*" /\ i < Len(glob) /\ glob[i + 1] = "*"
       THEN \E k \in j..(Len(s) + 1) : GlobMatches(glob, i + 2, s, k, single, double)
  ELSE IF glob[i] = "*"
       THEN \E k \in j..(Len(s) + 1) :
              /\ \A m \in j..(k - 1) : s[m] \in single
              /\ GlobMatches(glob, i + 1, s, k, single, double)
  ELSE /\ j <= Len(s)
       /\ s[j] = glob[i]
       /\ GlobMatches(glob, i + 1, s, j + 1, single, double)

HasScheme(pattern) == Includes(pattern, <<":", "/", "/">>, 1)

\* C15: a pattern without a scheme is matched against the target's hostname
\* only: "." matches a literal dot, a single "*" any run of characters without
\* a dot, and "**" any characters, dots included.
C15_HostnameGlob ==
  (ev.pc = "matched" /\ ~HasScheme(ev.pattern) /\ ParseHostname(ev.url) # NoHost) =>
    ev.result = GlobMatches(ev.pattern, 1, ParseHostname(ev.url), 1, NonDotChars, TRUE)

\* C16: a pattern with a scheme is matched against the full target URL, every
\* character of the pattern standing for itself except "*", which matches any
\* characters.
C16_FullUrlGlob ==
  (ev.pc = "matched" /\ HasScheme(ev.pattern)) =>
    ev.result = GlobMatches(ev.pattern, 1, ev.url, 1, UrlChars, FALSE)

(***************************************************************************)
(* Detection monitor: the initial sweep and the periodic re-check.         *)
(***************************************************************************)
\* throwsAt: the sweep (1 the initial one, 2 the first re-check) in which
\* reading navigator.webdriver throws, 0 when it never does
Pages ==
  [webdriver : {"true", "overridden", "absent"}, noPlugins : BOOLEAN,
   noLanguages : BOOLEAN, selenium : 0..1, cdp : SUBSET CdpIndicators,
   computerUse : 0..1, operator : 0..1, generic : 1..2,
   throwsAt : 0..(MaxRechecks + 1)]

\* detectWebDriverFlag() throwing inside sweep number k: runDetectionSweep
\* calls its probes without a try block, so the sweep throws too
SweepThrows(page, k) == page.throwsAt = k

Configs ==
  {c \in DetectorConfig : c.enableBehavioral \/ c.minimumConfidence = "low"}

Mouse(n, intervalStdDev, integerRatio, syntheticRatio) ==
  [n |-> n, intervalStdDev |-> intervalStdDev, integerRatio |-> integerRatio,
   syntheticRatio |-> syntheticRatio]

Keys(n, keydowns, intervalStdDev, averageInterval, syntheticRatio) ==
  [n |-> n, keydowns |-> keydowns, intervalStdDev |-> intervalStdDev,
   averageInterval |-> averageInterval, syntheticRatio |-> syntheticRatio]

Clicks(n, stdDev, meanOffset) == [n |-> n, stdDev |-> stdDev, meanOffset |-> meanOffset]

HumanMouse == Mouse(20, 15, 95, 50)

HumanKeys == Keys(20, 10, 20, 100, 50)

HumanClicks == Clicks(5, 2, 3)

\* Event buffers: human input, too few mouse events, and automation seen by
\* one, two or three of the sub-analyses
Buffers ==
  {[mouse |-> HumanMouse, keys |-> HumanKeys, clicks |-> HumanClicks],
   [mouse |-> Mouse(19, 0, 100, 100), keys |-> Keys(20, 10, 0, 10, 100),
    clicks |-> Clicks(5, 0, 0)],
   [mouse |-> Mouse(20, 15, 95, 51), keys |-> Keys(0, 0, 0, 0, 0),
    clicks |-> Clicks(0, 0, 0)],
   [mouse |-> Mouse(20, 14, 96, 51), keys |-> Keys(19, 10, 0, 10, 100),
    clicks |-> Clicks(4, 0, 0)],
   [mouse |-> HumanMouse, keys |-> Keys(20, 6, 19, 29, 50), clicks |-> HumanClicks],
   [mouse |-> Mouse(20, 14, 95, 50), keys |-> Keys(20, 10, 20, 100, 81),
    clicks |-> HumanClicks],
   [mouse |-> Mouse(20, 14, 96, 50), keys |-> Keys(20, 6, 19, 100, 50),
    clicks |-> Clicks(5, 1, 2)]}

NoVerdict == [null |-> TRUE]

InitSweep ==
  /\ ev = EvIdle
  /\ MainIdle
  /\ det \in [pc : {"created"}, page : Pages, cfg : Configs, buffers : Buffers,
              lastDetectedAgentId : {0}, sweeps : {0}, rechecks : {0},
              verdict : {NoVerdict}, onDetection : {FALSE}]

\* startDetectionMonitor: the initial sweep. The sweep that runs as number k
\* gives its agent the id k.
\* When the sweep throws, startDetectionMonitor throws before it installs the
\* interval and the listeners.
InitialSweep ==
  /\ det.pc = "created"
  /\ LET result == runDetectionSweep(det.page, det.cfg, det.sweeps + 1)
     IN  IF SweepThrows(det.page, det.sweeps + 1)
         THEN det' = [det EXCEPT !.pc = "threw", !.sweeps = @ + 1]
         ELSE det' = [det EXCEPT !.pc = "swept",
                                 !.sweeps = @ + 1,
                                 !.verdict = result,
                                 !.lastDetectedAgentId =
                                    IF result.agentDetected THEN result.agentId ELSE @,
                                 !.onDetection = result.agentDetected]
  /\ UNCHANGED <<ev, mainVars>>

\* One firing of the setInterval callback. When the sweep throws, the callback
\* ends there with an uncaught exception.
PeriodicRecheck ==
  /\ det.pc \in {"swept", "rechecked", "aborted"}
  /\ det.rechecks < MaxRechecks
  /\ LET result == RecheckVerdict(det.page, det.cfg, det.buffers.mouse, det.buffers.keys,
                                  det.buffers.clicks, det.sweeps + 1)
         fresh == result.agentDetected
                  /\ (result.agentId # det.lastDetectedAgentId
                      \/ det.lastDetectedAgentId = 0)
     IN  IF SweepThrows(det.page, det.sweeps + 1)
         THEN det' = [det EXCEPT !.pc = "aborted",
                                 !.sweeps = @ + 1,
                                 !.rechecks = @ + 1,
                                 !.verdict = NoVerdict,
                                 !.onDetection = FALSE]
         ELSE det' = [det EXCEPT !.pc = "rechecked",
                                 !.sweeps = @ + 1,
                                 !.rechecks = @ + 1,
                                 !.verdict = result,
                                 !.lastDetectedAgentId = IF fresh THEN result.agentId ELSE @,
                                 !.onDetection = fresh]
  /\ UNCHANGED <<ev, mainVars>>

NextSweep == InitialSweep \/ PeriodicRecheck

SpecSweep == InitSweep /\ [][NextSweep]_vars

AtLeast(c, floor) == confidenceRank(c) >= confidenceRank(floor)

\* C9: in one sweep, exactly one positive probe signal gives the verdict that
\* signal's confidence, exactly two give at least High, three or more give
\* Confirmed.
C9_FusionEscalation ==
  det.pc = "swept" =>
    LET positives == DetectedResults(det.page)
        confidence == det.verdict.overallConfidence
    IN  /\ Len(positives) = 1 => confidence = positives[1].confidence
        /\ Len(positives) = 2 => AtLeast(confidence, "high")
        /\ Len(positives) >= 3 => confidence = "confirmed"

\* C10: a positive behavioral result counts as one more positive signal of the
\* fusion: with one positive probe signal the verdict is at least High, with
\* two it is Confirmed (under the default detector configuration).
C10_BehavioralIsOneMoreSignal ==
  (det.pc = "rechecked" /\ det.cfg = DEFAULT_DETECTOR_CONFIG
     /\ det.verdict.behavioralResult # NoAnalysis
     /\ det.verdict.behavioralResult.detected) =>
    LET positives == DetectedResults(det.page)
        confidence == det.verdict.overallConfidence
    IN  /\ Len(positives) = 1 => AtLeast(confidence, "high")
        /\ Len(positives) = 2 => confidence = "confirmed"

(***************************************************************************)
(* The behavioral sub-analyses applied to buffers of every size around     *)
(* their minimum sample size, with human-like and machine-like statistics. *)
(***************************************************************************)
InitBehavior ==
  /\ det = DetIdle
  /\ MainIdle
  /\ ev \in [pc : {"buffered"},
              mouse : {Mouse(n, sd, ir, sr) :
                         n \in {0, MinimumEventsRequired - 1, MinimumEventsRequired},
                         sd \in {0, MouseIntervalStdDevMin},
                         ir \in {IntegerCoordinateRatioMax, 100},
                         sr \in {SyntheticEventRatioMax, 100}},
              keys : {Keys(n, MinKeydowns + 1, sd, ai, sr) :
                        n \in {MinKeydowns + 1, MinimumEventsRequired - 1,
                               MinimumEventsRequired},
                        sd \in {0, KeyIntervalStdDevMin},
                        ai \in {SuperhumanKeyInterval - 1, SuperhumanKeyInterval},
                        sr \in {SyntheticEventRatioMax, 100}},
              clicks : {Clicks(n, sd, mo) :
                          n \in {0, MinimumClicksRequired - 1, MinimumClicksRequired},
                          sd \in {0, ClickStdDevMax},
                          mo \in {0, ClickMeanOffsetMax}},
              mouseResult : {NoAnalysis}, keyResult : {NoAnalysis},
              clickResult : {NoAnalysis}]

AnalyzeMouse ==
  /\ ev.pc = "buffered"
  /\ ev.mouseResult = NoAnalysis
  /\ ev' = [ev EXCEPT !.mouseResult = analyzeMouseBehavior(ev.mouse)]
  /\ UNCHANGED <<det, mainVars>>

AnalyzeKeyboard ==
  /\ ev.pc = "buffered"
  /\ ev.keyResult = NoAnalysis
  /\ ev' = [ev EXCEPT !.keyResult = analyzeKeyboardBehavior(ev.keys)]
  /\ UNCHANGED <<det, mainVars>>

AnalyzeClicks ==
  /\ ev.pc = "buffered"
  /\ ev.clickResult = NoAnalysis
  /\ ev' = [ev EXCEPT !.clickResult = analyzeClickPrecision(ev.clicks)]
  /\ UNCHANGED <<det, mainVars>>

NextBehavior == AnalyzeMouse \/ AnalyzeKeyboard \/ AnalyzeClicks

SpecBehavior == InitBehavior /\ [][NextBehavior]_vars

\* C13: a behavioral sub-analysis whose buffer holds fewer events than its
\* minimum sample size (20 mouse events, 20 keyboard events, 5 clicks) returns
\* detected = false, whatever the buffered events are.
C13_TooFewEventsNotDetected ==
  ev.pc = "buffered" =>
    /\ (ev.mouseResult # NoAnalysis /\ ev.mouse.n < 20) => ~ev.mouseResult.detected
    /\ (ev.keyResult # NoAnalysis /\ ev.keys.n < 20) => ~ev.keyResult.detected
    /\ (ev.clickResult # NoAnalysis /\ ev.clicks.n < 5) => ~ev.clickResult.detected

\* Buffers one event short of the minimum whose statistics are all machine-like
C13_Witness ==
  /\ ev.pc = "buffered"
  /\ ev.mouse = Mouse(19, 0, 100, 100)
  /\ ev.keys = Keys(19, 6, 0, 29, 100)
  /\ ev.clicks = Clicks(4, 0, 0)
  /\ ev.mouseResult # NoAnalysis /\ ~ev.mouseResult.detected
  /\ ev.keyResult # NoAnalysis /\ ~ev.keyResult.detected
  /\ ev.clickResult # NoAnalysis /\ ~ev.clickResult.detected

\* The page as the remaining probes see it: the WebDriver flag probe negative
WithoutWebDriverProbe(page) == [page EXCEPT !.webdriver = "absent"]

\* C12: when one probe throws during a sweep, the sweep still completes and its
\* verdict is the one computed with that probe counted as not detected, in the
\* initial sweep and in the periodic re-check alike.
C12_ThrowingProbeCountsAsNegative ==
  /\ (det.page.throwsAt = 1 /\ det.sweeps >= 1 /\ det.rechecks = 0) =>
        /\ det.pc = "swept"
        /\ det.verdict = runDetectionSweep(WithoutWebDriverProbe(det.page), det.cfg, 1)
  /\ (det.page.throwsAt = 2 /\ det.sweeps >= 2) =>
        /\ det.pc = "rechecked"
        /\ det.verdict = RecheckVerdict(WithoutWebDriverProbe(det.page), det.cfg,
                                        det.buffers.mouse, det.buffers.keys,
                                        det.buffers.clicks, 2)

\* The named framework fingerprints that are positive on a page
NamedFingerprints(page) ==
  {r.frameworkType : r \in {q \in {detectAnthropicComputerUse(page),
                                    detectOpenAIOperator(page)} : q.detected}}

\* C11: the agent type of a positive verdict comes from the highest-priority
\* source that fired: a named framework fingerprint if one fired, otherwise a
\* CDP-derived type if the CDP probe fired, otherwise webdriver-generic if the
\* WebDriver flag probe fired, and unknown when no probe fired (only the
\* behavioral analysis did).
C11_AgentTypePriority ==
  (det.pc \in {"swept", "rechecked"} /\ det.verdict.agentDetected) =>
    LET agentType == det.verdict.agentType
    IN  IF NamedFingerprints(det.page) # {} THEN agentType \in NamedFingerprints(det.page)
        ELSE IF detectCdpConnection(det.page).detected
             THEN agentType \in {"cdp-generic", "playwright", "puppeteer"}
        ELSE IF detectWebDriverFlag(det.page).detected THEN agentType = "webdriver-generic"
        ELSE DetectedResults(det.page) = <<>> => agentType = "unknown"

(***************************************************************************)
(* Boundary monitor of one content script (content/monitor.ts). c is the   *)
(* content script's record, ms its monitorState.                           *)
(***************************************************************************)
eventTypes == <<"click", "input", "submit", "keydown">>

NoCapability == "null"

mapEventToCapability(eventType) ==
  IF eventType = "click" THEN "click"
  ELSE IF eventType = "input" THEN "type-text"
  ELSE IF eventType = "submit" THEN "submit-form"
  ELSE IF eventType = "keydown" THEN "type-text"
  ELSE NoCapability

RecentViolationsMax == 50

\* window.location.href of the page in tab t
PageUrl(t) == IF t = 1 THEN U_SUB ELSE U_OTHER

\* startBoundaryMonitor(rule, onViolation, onAction): a fresh monitorState, one
\* more interception handler on the document, one more observer when
\* document.body exists; the result is installed as monitorCleanup
startBoundaryMonitor(c, rule) ==
  [c EXCEPT !.monitorState = [activeRule |-> rule, isMonitoring |-> TRUE,
                              allowedCount |-> 0, blockedCount |-> 0,
                              recentViolations |-> <<>>],
            !.listeners = @ + 1,
            !.observers = IF c.body THEN @ + 1 ELSE @,
            !.monitorCleanup = [observing |-> c.body]]

\* The closure startBoundaryMonitor returns, for the instance c.monitorCleanup
RunMonitorCleanup(c) ==
  [c EXCEPT !.monitorState.isMonitoring = FALSE,
            !.listeners = @ - 1,
            !.observers = IF c.monitorCleanup.observing THEN @ - 1 ELSE @]

updateActiveRule(c, rule) == [c EXCEPT !.monitorState.activeRule = rule]

InterceptsTrustedToo(ms, e) ==
  ms.isMonitoring /\ mapEventToCapability(e.type) # NoCapability

\* The early returns of interceptionHandler: whether it goes on to evaluate e
Intercepts(ms, e) ==
  ms.isMonitoring /\ ~e.isTrusted /\ mapEventToCapability(e.type) # NoCapability

Handled(ms, evaluations, outcome, vetoed, onViolation, onAction) ==
  [monitorState |-> ms, evaluations |-> evaluations, outcome |-> outcome,
   vetoed |-> vetoed, onViolation |-> onViolation, onAction |-> onAction]

\* Of a BoundaryViolation: attemptedAction and blockingRuleId (0 for 'none')
BoundaryViolation(capability, rule) ==
  [attemptedAction |-> capability,
   blockingRuleId |-> IF rule = NoRule THEN 0 ELSE rule.id]

PushViolation(violations, v) ==
  IF Len(violations) + 1 > RecentViolationsMax THEN Tail(Append(violations, v))
  ELSE Append(violations, v)

\* One run of one interception handler on event e. A TypeError raised by
\* checkBoundary leaves the handler before it has counted or vetoed anything.
interceptionHandler(ms, e, url, now) ==
  IF ~Intercepts(ms, e) THEN Handled(ms, 0, "skipped", FALSE, 0, 0)
  ELSE
    LET capability == mapEventToCapability(e.type)
        result == checkBoundary(capability, url, ms.activeRule, now)
    IN  IF result.threw THEN Handled(ms, 1, "threw", FALSE, 0, 0)
        ELSE IF result.allowed
        THEN Handled([ms EXCEPT !.allowedCount = @ + 1], 1, "allowed", FALSE, 0, 1)
        ELSE Handled([ms EXCEPT !.blockedCount = @ + 1,
                                !.recentViolations =
                                   PushViolation(@, BoundaryViolation(capability,
                                                                      ms.activeRule))],
                     1, "denied", TRUE, 1, 1)

\* The event reaches every interception handler attached to the document, one
\* after the other; stopPropagation does not keep it from the later ones
RECURSIVE DispatchEvent(_, _, _, _, _)
DispatchEvent(ms, e, url, now, handlers) ==
  IF handlers = 0 THEN Handled(ms, 0, "skipped", FALSE, 0, 0)
  ELSE LET first == interceptionHandler(ms, e, url, now)
           rest == DispatchEvent(first.monitorState, e, url, now, handlers - 1)
       IN  Handled(rest.monitorState, first.evaluations + rest.evaluations,
                   first.outcome, first.vetoed \/ rest.vetoed,
                   first.onViolation + rest.onViolation,
                   first.onAction + rest.onAction)

\* One run of the MutationObserver callback on a childList record: it counts
\* nothing and vetoes nothing, a denial only calls onViolation
mutationCallback(ms, url, now) ==
  IF ~ms.isMonitoring THEN Handled(ms, 0, "skipped", FALSE, 0, 0)
  ELSE LET result == checkBoundary("modify-dom", url, ms.activeRule, now)
       IN  IF result.threw THEN Handled(ms, 1, "threw", FALSE, 0, 0)
           ELSE IF result.allowed THEN Handled(ms, 1, "allowed", FALSE, 0, 0)
           ELSE Handled(ms, 1, "denied", FALSE, 1, 0)

(***************************************************************************)
(* Content script entry point (content/index.ts) and its side of the kill  *)
(* switch (killswitch/index.ts).                                           *)
(***************************************************************************)
\* startMonitoring, run at once or on DOMContentLoaded
startMonitoring(c) ==
  LET started == startBoundaryMonitor([c EXCEPT !.body = TRUE], NoRule)
  IN  [started EXCEPT !.phase = "started",
                      !.registeredCleanups = @ \o <<"detection", "monitor">>,
                      !.statusQuery.pc = "sent"]

\* One registered closure: () => { if (monitorCleanup) monitorCleanup(); }
RunRegisteredCleanup(c, cleanup) ==
  IF cleanup = "monitor" /\ c.monitorCleanup # NullCleanup
  THEN RunMonitorCleanup(c)
  ELSE c

\* A registered cleanup that throws when it is called; registerCleanup takes
\* any function
CleanupThrows(cleanup) == cleanup = "throws"

\* executeContentKillSwitch before its loop: let listenersRemoved = 0; called
\* counts the cleanups that were invoked and threw tells that an exception
\* left the function
CleanupRun(c) == [context |-> c, called |-> 0, listenersRemoved |-> 0, threw |-> FALSE]

\* The loop without its try: the exception of a cleanup leaves the loop
RECURSIVE RunCleanupsNoCatch(_, _)
RunCleanupsNoCatch(run, cleanups) ==
  IF cleanups = <<>> THEN run
  ELSE IF CleanupThrows(Head(cleanups))
       THEN [run EXCEPT !.called = @ + 1, !.threw = TRUE]
  ELSE RunCleanupsNoCatch(
         [run EXCEPT !.context = RunRegisteredCleanup(@, Head(cleanups)),
                     !.called = @ + 1, !.listenersRemoved = @ + 1],
         Tail(cleanups))

\* for (const cleanup of registeredCleanups) { try { cleanup();
\* listenersRemoved++; } catch {} }
RECURSIVE RunCleanups(_, _)
RunCleanups(run, cleanups) ==
  IF cleanups = <<>> THEN run
  ELSE RunCleanups(
         [run EXCEPT !.context = RunRegisteredCleanup(@, Head(cleanups)),
                     !.called = @ + 1,
                     !.listenersRemoved = IF CleanupThrows(Head(cleanups))
                                          THEN @ ELSE @ + 1],
         Tail(cleanups))

\* executeContentKillSwitch(): the loop, registeredCleanups.length = 0, and the
\* report { listenersRemoved, observersDisconnected, bindingsCleared }.
\* observersDisconnected is never assigned after its let; bindingsCleared, the
\* automation markers deleted from the page, is left out. An exception that
\* leaves the loop leaves the function before the registry is emptied.
executeContentKillSwitch(c) ==
  LET run == RunCleanups(CleanupRun(c), c.registeredCleanups)
  IN  IF run.threw
      THEN [context |-> run.context, called |-> run.called, threw |-> TRUE,
            report |-> [null |-> TRUE]]
      ELSE [context |-> [run.context EXCEPT !.registeredCleanups = <<>>],
            called |-> run.called, threw |-> FALSE,
            report |-> [listenersRemoved |-> run.listenersRemoved,
                        observersDisconnected |-> 0]]

\* handleMessage, case 'DELEGATION_UPDATE'
OnDelegationUpdate(c, rule) ==
  LET updated == updateActiveRule(c, rule)
      stopped == IF updated.monitorCleanup # NullCleanup
                 THEN RunMonitorCleanup(updated) ELSE updated
  IN  startBoundaryMonitor(stopped, rule)

\* handleMessage, case 'KILL_SWITCH_ACTIVATE'
OnKillSwitchActivate(c) ==
  [executeContentKillSwitch(c).context EXCEPT !.monitorCleanup = NullCleanup]

\* The continuation of sendToBackground('STATUS_QUERY', {})
OnStatusResponse(c, response) ==
  LET updated == IF response.activeDelegation # NoRule
                 THEN updateActiveRule(c, response.activeDelegation) ELSE c
  IN  [updated EXCEPT !.statusQuery.pc = "handled"]

(***************************************************************************)
(* Coordinator (background/index.ts).                                      *)
(***************************************************************************)
\* The time bound of a Limited delegation, in clock ticks
DurationTicks == 1

\* options?.durationMinutes ?? 60
DefaultDurationMinutes == 60

\* durationMinutes: <<m>> for options.durationMinutes = m, <<>> when undefined.
\* One tick of the clock is one minute.
createRuleFromPreset(preset, sitePatterns, durationMinutes, now, id) ==
  IF preset = "readOnly"
  THEN Rule(id, preset, <<>>, buildActionRestrictions(READ_ONLY_CAPABILITIES),
            NoTimeBound, TRUE)
  ELSE IF preset = "limited"
  THEN LET minutes == IF durationMinutes = <<>> THEN DefaultDurationMinutes
                      ELSE durationMinutes[1]
       IN  Rule(id, preset, sitePatterns, buildActionRestrictions(LIMITED_CAPABILITIES),
                [expiresAt |-> IsoDate(now + minutes)], TRUE)
  ELSE Rule(id, preset, <<>>, buildActionRestrictions(ALL_CAPABILITIES),
            NoTimeBound, TRUE)

\* What a DELEGATION_UPDATE message can carry as its rule: the rules the wizard
\* compiles, and, as message.data is cast to DelegationRule unchecked, rule
\* objects whose expiresAt does not parse or that have no scope
IncomingRules(now, id) ==
  {createRuleFromPreset("readOnly", <<>>, <<DurationTicks>>, now, id),
   createRuleFromPreset("fullAccess", <<>>, <<DurationTicks>>, now, id),
   createRuleFromPreset("limited", <<[pattern |-> P_ONE_LABEL, action |-> "allow"]>>,
                        <<DurationTicks>>, now, id),
   Rule(id, "fullAccess", <<>>, buildActionRestrictions(ALL_CAPABILITIES),
        [expiresAt |-> InvalidDate], TRUE),
   [id |-> id, preset |-> "fullAccess", scope |-> NoScope, isActive |-> TRUE]}

(***************************************************************************)
(* Rule compilation (delegation/wizard.ts, delegation/rules.ts): the       *)
(* wizard's last step and a direct call of createRuleFromPreset. A wizard  *)
(* state holds a duration only after setDuration accepted it.              *)
(***************************************************************************)
TIME_DURATION_OPTIONS == {15, 60, 240}

NoPreset == "null"

\* wizard: the WizardState; wizard.durationMinutes: <<m>>, or <<>> for null
finalizeWizard(wizard, now, id) ==
  IF wizard.selectedPreset = NoPreset THEN NoRule
  ELSE IF wizard.selectedPreset = "limited"
          /\ (wizard.sitePatterns = <<>> \/ wizard.durationMinutes = <<>>)
       THEN NoRule
  ELSE createRuleFromPreset(wizard.selectedPreset, wizard.sitePatterns,
                            wizard.durationMinutes, now, id)

InitWizard ==
  /\ det = DetIdle
  /\ MainIdle
  /\ ev \in [pc : {"input"},
              selectedPreset : DelegationPreset \cup {NoPreset},
              sitePatterns : SeqsUpTo(SitePattern, MaxPatterns),
              durationMinutes : {<<>>} \cup {<<m>> : m \in TIME_DURATION_OPTIONS \cup {1}},
              now : 0..MaxTime,
              result : {NoRule}]

FinalizeWizardCall ==
  /\ ev.pc = "input"
  /\ \A i \in DOMAIN ev.durationMinutes : ev.durationMinutes[i] \in TIME_DURATION_OPTIONS
  /\ ev' = [ev EXCEPT !.pc = "finalized", !.result = finalizeWizard(ev, ev.now, 1)]
  /\ UNCHANGED <<det, mainVars>>

CreateRuleFromPresetCall ==
  /\ ev.pc = "input"
  /\ ev.selectedPreset # NoPreset
  /\ ev' = [ev EXCEPT !.pc = "created",
                      !.result = createRuleFromPreset(ev.selectedPreset, ev.sitePatterns,
                                                      ev.durationMinutes, ev.now, 1)]
  /\ UNCHANGED <<det, mainVars>>

NextWizard == FinalizeWizardCall \/ CreateRuleFromPresetCall

SpecWizard == InitWizard /\ [][NextWizard]_vars

\* C17: compiling a Limited rule gives no rule when the site-pattern list is
\* empty or when no time bound of 15, 60 or 240 minutes is given, and a Limited
\* rule that was compiled has a non-empty list and such a time bound.
C17_LimitedNeedsSitesAndTime ==
  (ev.pc \in {"finalized", "created"} /\ ev.selectedPreset = "limited") =>
    LET complete == /\ ev.sitePatterns # <<>>
                    /\ ev.durationMinutes \in {<<15>>, <<60>>, <<240>>}
    IN  /\ ~complete => ev.result = NoRule
        /\ ev.result # NoRule =>
              /\ ev.result.scope.sitePatterns # <<>>
              /\ ev.result.scope.timeBound \in
                    {[expiresAt |-> IsoDate(ev.now + m)] : m \in {15, 60, 240}}

\* The same for the wizard's last step alone
C17_FinalizeWizardOnly == ev.pc = "finalized" => C17_LimitedNeedsSitesAndTime

\* A token as issueToken returns it
issueToken(ruleId, agentId, tokenId) ==
  [tokenId |-> tokenId, ruleId |-> ruleId, agentId |-> agentId, revoked |-> FALSE]

\* return { ...token, revoked: true }: a copy; the argument stays as it is
revokeToken(token) == [token EXCEPT !.revoked = TRUE]

\* The KillSwitchEvent that executeBackgroundKillSwitch returns. Its loop calls
\* revokeToken on each of activeTokens, drops the copy that comes back, and
\* lists the token's id. The event's id and timestamp, new on every call, are
\* left out.
executeBackgroundKillSwitch(activeAgentIds, activeTokens) ==
  [terminatedAgentIds |-> activeAgentIds,
   revokedTokenIds |-> [i \in DOMAIN activeTokens |-> activeTokens[i].tokenId]]

\* DEFAULT_SETTINGS.maxSessions
DefaultMaxSessions == 5

\* The AgentSession that handleDetection creates: endedAt: null,
\* endReason: null, events: []. A null endedAt is <<>>, a timestamp t is <<t>>.
\* The agent, the rule and the summary of the session are left out.
Session(id) == [id |-> id, endedAt |-> <<>>, endReason |-> "null", events |-> <<>>]

\* createTimelineEvent(type, ...) and the AgentEvent of an AGENT_ACTION: its
\* type and its id, the number n
TimelineEvent(type, n) == [type |-> type, n |-> n]

\* appendEventToSession(session, event): { ...session, events: [...events,
\* event], summary }
appendEventToSession(session, event) == [session EXCEPT !.events = Append(@, event)]

\* getStorageState().settings.maxSessions: { ...DEFAULT_SETTINGS, ...stored };
\* settings is <<>> when storage holds none and <<n>> when it holds maxSessions n
MaxSessionsOf(settings) == IF settings = <<>> THEN DefaultMaxSessions ELSE settings[1]

\* What saveSession writes: sessions = [session, ...state.sessions], cut with
\* sessions.length = maxSessions when it is longer
saveSessionAppend(stored, session, maxSessions) ==
  LET sessions == Append(stored, session)
  IN  IF Len(sessions) > maxSessions THEN SubSeq(sessions, 1, maxSessions) ELSE sessions

saveSession(stored, session, maxSessions) ==
  LET sessions == <<session>> \o stored
  IN  IF Len(sessions) > maxSessions THEN SubSeq(sessions, 1, maxSessions) ELSE sessions

\* state.sessions.findIndex((s) => s.id === sessionId), 0 for -1
FindSessionIndex(stored, sessionId) ==
  IF \E i \in DOMAIN stored : stored[i].id = sessionId
  THEN CHOOSE i \in DOMAIN stored :
         stored[i].id = sessionId /\ \A j \in 1..(i - 1) : stored[j].id # sessionId
  ELSE 0

\* What updateSession writes, the stored list itself when the id is not found
\* (it then returns without writing). updater is a function on the sessions.
updateSession(stored, sessionId, updater) ==
  LET index == FindSessionIndex(stored, sessionId)
  IN  IF index = 0 THEN stored ELSE [stored EXCEPT ![index] = updater[@]]

\* (session) => ({ ...session, endedAt: new Date().toISOString(), endReason })
EndSession(session, now, endReason) ==
  [session EXCEPT !.endedAt = <<now>>, !.endReason = endReason]

\* The ids of the stored sessions that are open, when this specification has
\* a session store
OpenSessionIds ==
  IF "sessions" \in DOMAIN ev
  THEN {ev.sessions[i].id : i \in {j \in DOMAIN ev.sessions : ev.sessions[j].endedAt = <<>>}}
  ELSE {}

Task(kind, pc, tab, rule, activeBefore) ==
  [kind |-> kind, pc |-> pc, tab |-> tab, rule |-> rule, activeBefore |-> activeBefore]

RemoveAt(s, i) == [j \in 1..(Len(s) - 1) |-> IF j < i THEN s[j] ELSE s[j + 1]]

\* for (const r of state.delegationRules) r.isActive = false
DeactivateNone(rules) == rules

DeactivateAll(rules) == [i \in DOMAIN rules |-> [rules[i] EXCEPT !.isActive = FALSE]]

\* state.delegationRules.findIndex((r) => r.id === id), 0 for -1
FindIndexById(rules, id) ==
  IF \E i \in DOMAIN rules : rules[i].id = id
  THEN CHOOSE i \in DOMAIN rules :
         rules[i].id = id /\ \A j \in 1..(i - 1) : rules[j].id # id
  ELSE 0

\* state.delegationRules.find((r) => r.isActive) ?? null
FindActiveRule(rules) ==
  IF \E i \in DOMAIN rules : rules[i].isActive
  THEN rules[CHOOSE i \in DOMAIN rules :
               rules[i].isActive /\ \A j \in 1..(i - 1) : ~rules[j].isActive]
  ELSE NoRule

ActiveRuleIds(rules) == {rules[i].id : i \in {j \in DOMAIN rules : rules[j].isActive}}

\* chrome.tabs.sendMessage(tab, message): run the content script's handler; a
\* tab without a content script rejects, which the sender catches
SendDelegationUpdate(contents, tab, rule) ==
  IF contents[tab].phase = "absent" THEN contents
  ELSE [contents EXCEPT ![tab] = OnDelegationUpdate(@, rule)]

SendKillSwitchActivate(contents, tab) ==
  IF contents[tab].phase = "absent" THEN contents
  ELSE [contents EXCEPT ![tab] = OnKillSwitchActivate(@)]

\* The scan of checkDelegationExpiration from index from on: the index of the
\* next active rule whose time bound has expired, 0 when the scan ends without
\* one or is ended by the TypeError of a rule without scope
RECURSIVE NextExpired(_, _, _)
NextExpired(rules, from, now) ==
  IF from > Len(rules) THEN 0
  ELSE IF ~rules[from].isActive THEN NextExpired(rules, from + 1, now)
  ELSE IF rules[from].scope = NoScope THEN 0
  ELSE IF isTimeBoundExpired(rules[from].scope.timeBound, now) THEN from
  ELSE NextExpired(rules, from + 1, now)

(***************************************************************************)
(* The extension as a whole: content scripts, coordinator, clock.          *)
(***************************************************************************)
Init ==
  /\ ev = EvIdle
  /\ det = DetIdle
  /\ MainIdle

Tick ==
  /\ clock < MaxClock
  /\ clock' = clock + 1
  /\ last' = NoAction
  /\ UNCHANGED <<ev, det, state, tasks, content, killed>>

\* content/index.ts initialize(): the message listener is registered;
\* monitoring starts at once unless the document is still loading
ContentInitialize(t, loading) ==
  /\ content[t].phase = "absent"
  /\ content' = [content EXCEPT ![t] =
                   IF loading THEN [@ EXCEPT !.phase = "loading"]
                   ELSE startMonitoring(@)]
  /\ last' = NoAction
  /\ UNCHANGED <<ev, det, clock, state, tasks, killed>>

\* The parser creates document.body while the document is loading
BodyParsed(t) ==
  /\ content[t].phase = "loading"
  /\ ~content[t].body
  /\ content' = [content EXCEPT ![t].body = TRUE]
  /\ last' = NoAction
  /\ UNCHANGED <<ev, det, clock, state, tasks, killed>>

DomContentLoaded(t) ==
  /\ content[t].phase = "loading"
  /\ content' = [content EXCEPT ![t] = startMonitoring(@)]
  /\ last' = NoAction
  /\ UNCHANGED <<ev, det, clock, state, tasks, killed>>

\* Coordinator handleMessage, case 'STATUS_QUERY', for the query of tab t
StatusQuery(t) ==
  /\ content[t].statusQuery.pc = "sent"
  /\ content' = [content EXCEPT ![t].statusQuery =
                   [pc |-> "answered",
                    response |-> [activeDelegation |->
                                    FindActiveRule(state.delegationRules)]]]
  /\ last' = NoAction
  /\ UNCHANGED <<ev, det, clock, state, tasks, killed>>

StatusResponse(t) ==
  /\ content[t].statusQuery.pc = "answered"
  /\ content' = [content EXCEPT ![t] = OnStatusResponse(@, @.statusQuery.response)]
  /\ last' = NoAction
  /\ UNCHANGED <<ev, det, clock, state, tasks, killed>>

\* What kind of value monitorState.activeRule holds
RuleShape(rule) ==
  IF rule = NoRule THEN "null"
  ELSE IF rule.scope = NoScope THEN "no scope"
  ELSE IF rule.scope.timeBound # NoTimeBound /\ ~rule.scope.timeBound.expiresAt.valid
       THEN "invalid expiresAt"
  ELSE "well-formed"

Observed(t, kind, e, outcome) ==
  LET before == content[t].monitorState
      after == outcome.monitorState
  IN  [kind |-> kind, tab |-> t, type |-> e.type, isTrusted |-> e.isTrusted,
       monitoring |-> before.isMonitoring, rule |-> RuleShape(before.activeRule),
       evaluations |-> outcome.evaluations, outcome |-> outcome.outcome,
       vetoed |-> outcome.vetoed, effect |-> ~outcome.vetoed,
       allowedDelta |-> after.allowedCount - before.allowedCount,
       blockedDelta |-> after.blockedCount - before.blockedCount,
       buffered |-> Len(after.recentViolations) - Len(before.recentViolations),
       onViolation |-> outcome.onViolation, onAction |-> outcome.onAction]

\* The event types the pages dispatch: one the Limited preset allows and one
\* it blocks
PageEventTypes == {"click", "submit"}

\* The page dispatches an event of a type the monitor listens to
PageEvent(t, type, isTrusted) ==
  /\ content[t].phase # "absent"
  /\ LET e == [type |-> type, isTrusted |-> isTrusted]
         outcome == DispatchEvent(content[t].monitorState, e, PageUrl(t), clock,
                                  content[t].listeners)
     IN  /\ outcome.monitorState.allowedCount <= MaxCount
         /\ outcome.monitorState.blockedCount <= MaxCount
         /\ content' = [content EXCEPT ![t].monitorState = outcome.monitorState]
         /\ last' = Observed(t, "event", e, outcome)
  /\ UNCHANGED <<ev, det, clock, state, tasks, killed>>

\* A script changes the children of a node under document.body: the change is
\* made, then every observing MutationObserver is called back with its record,
\* which carries no isTrusted
PageMutation(t) ==
  /\ content[t].phase # "absent"
  /\ content[t].body
  /\ LET ms == content[t].monitorState
         one == mutationCallback(ms, PageUrl(t), clock)
         n == content[t].observers
         outcome == IF n = 0 THEN Handled(ms, 0, "skipped", FALSE, 0, 0)
                    ELSE Handled(ms, n * one.evaluations, one.outcome, FALSE,
                                 n * one.onViolation, 0)
     IN  last' = Observed(t, "mutation", [type |-> "childList", isTrusted |-> FALSE],
                          outcome)
  /\ UNCHANGED <<ev, det, clock, state, tasks, content, killed>>

\* Coordinator handleMessage, case 'DELEGATION_UPDATE': handleDelegationUpdate
\* up to its first await. The rule carries a fresh id (generateId).
DelegationUpdate(rule) ==
  /\ LET deactivated == DeactivateAll(state.delegationRules)
         existingIndex == FindIndexById(deactivated, rule.id)
     IN  state' = [state EXCEPT !.delegationRules =
                     IF existingIndex > 0
                     THEN [deactivated EXCEPT ![existingIndex] = rule]
                     ELSE Append(deactivated, rule)]
  /\ tasks' = Append(tasks, Task("delegation", "send", 1, rule.id, {}))
  /\ last' = NoAction
  /\ UNCHANGED <<ev, det, clock, content, killed>>

\* handleDelegationUpdate, one turn of its broadcast loop. The message data is
\* the rule object that is in state.delegationRules, as it is when it is sent.
DelegationUpdateSend(i) ==
  /\ i \in DOMAIN tasks
  /\ tasks[i].kind = "delegation"
  /\ LET task == tasks[i]
         rule == state.delegationRules[FindIndexById(state.delegationRules, task.rule)]
     IN  /\ content' = SendDelegationUpdate(content, task.tab, rule)
         /\ tasks' = IF task.tab < Len(content)
                     THEN [tasks EXCEPT ![i].tab = @ + 1]
                     ELSE RemoveAt(tasks, i)
  /\ last' = NoAction
  /\ UNCHANGED <<ev, det, clock, state, killed>>

\* Coordinator handleMessage, case 'KILL_SWITCH_ACTIVATE', or the keyboard
\* command: executeKillSwitch up to the first await of
\* executeBackgroundKillSwitch. agentIds is read before the call; repeat notes
\* whether an earlier kill switch had already set killSwitch.isActive and
\* openBefore which stored sessions are open at this moment.
KillSwitch ==
  /\ tasks' = Append(tasks,
                [kind |-> "killSwitch", pc |-> "send", tab |-> 1, rule |-> 0,
                 activeBefore |-> ActiveRuleIds(state.delegationRules),
                 agentIds |-> MapValues(state.activeAgents),
                 repeat |-> state.killSwitch.isActive,
                 openBefore |-> OpenSessionIds, sessions |-> <<>>])
  /\ last' = NoAction
  /\ UNCHANGED <<ev, det, clock, state, content, killed>>

\* KillSwitchSend without the try around sendMessage: the rejection of a tab
\* without a content script ends the broadcast loop
KillSwitchSendNoInnerCatch(i) ==
  /\ i \in DOMAIN tasks
  /\ tasks[i].kind = "killSwitch"
  /\ tasks[i].pc = "send"
  /\ content' = SendKillSwitchActivate(content, tasks[i].tab)
  /\ IF tasks[i].tab < Len(content) /\ content[tasks[i].tab].phase # "absent"
     THEN /\ tasks' = [tasks EXCEPT ![i].tab = @ + 1]
          /\ UNCHANGED <<state, killed>>
     ELSE /\ tasks' = [tasks EXCEPT ![i].pc = "save"]
          /\ state' = [state EXCEPT
                         !.killSwitch =
                            [isActive |-> TRUE,
                             lastEvent |-> executeBackgroundKillSwitch(tasks[i].agentIds,
                                                                       <<>>)],
                         !.activeAgents = <<>>,
                         !.delegationRules = DeactivateAll(@)]
          /\ killed' = killed \cup tasks[i].activeBefore
  /\ last' = NoAction
  /\ UNCHANGED <<ev, det, clock>>

\* executeBackgroundKillSwitch, one turn of its broadcast loop; after the last
\* turn executeKillSwitch runs on to its await of saveDelegationRules
KillSwitchSend(i) ==
  /\ i \in DOMAIN tasks
  /\ tasks[i].kind = "killSwitch"
  /\ tasks[i].pc = "send"
  /\ content' = SendKillSwitchActivate(content, tasks[i].tab)
  /\ IF tasks[i].tab < Len(content)
     THEN /\ tasks' = [tasks EXCEPT ![i].tab = @ + 1]
          /\ UNCHANGED <<state, killed>>
     ELSE /\ tasks' = [tasks EXCEPT ![i].pc = "save"]
          /\ state' = [state EXCEPT
                         !.killSwitch =
                            [isActive |-> TRUE,
                             lastEvent |-> executeBackgroundKillSwitch(tasks[i].agentIds,
                                                                       <<>>)],
                         !.activeAgents = <<>>,
                         !.delegationRules = DeactivateAll(@)]
          /\ killed' = killed \cup tasks[i].activeBefore
  /\ last' = NoAction
  /\ UNCHANGED <<ev, det, clock>>

\* executeKillSwitch from the await of saveDelegationRules to its return: the
\* open sessions are ended and leave activeSessions. The session store is not
\* part of this step; SpecSession takes the same code one await at a time.
KillSwitchFinish(i) ==
  /\ i \in DOMAIN tasks
  /\ tasks[i].kind = "killSwitch"
  /\ tasks[i].pc = "save"
  /\ tasks' = RemoveAt(tasks, i)
  /\ state' = [state EXCEPT !.activeSessions = <<>>]
  /\ last' = NoAction
  /\ UNCHANGED <<ev, det, clock, content, killed>>

\* The expiration alarm: checkDelegationExpiration up to its first await
ExpirationAlarm ==
  /\ LET index == NextExpired(state.delegationRules, 1, clock)
     IN  /\ index > 0
         /\ state' = [state EXCEPT !.delegationRules[index].isActive = FALSE]
         /\ tasks' = Append(tasks, Task("expiry", "send", 1, index, {}))
  /\ last' = NoAction
  /\ UNCHANGED <<ev, det, clock, content, killed>>

\* checkDelegationExpiration, one turn of its broadcast loop; after the last
\* turn the scan of the rules goes on
ExpirationSend(i) ==
  /\ i \in DOMAIN tasks
  /\ tasks[i].kind = "expiry"
  /\ content' = SendDelegationUpdate(content, tasks[i].tab, NoRule)
  /\ IF tasks[i].tab < Len(content)
     THEN /\ tasks' = [tasks EXCEPT ![i].tab = @ + 1]
          /\ UNCHANGED state
     ELSE LET index == NextExpired(state.delegationRules, tasks[i].rule + 1, clock)
          IN  IF index > 0
              THEN /\ state' = [state EXCEPT !.delegationRules[index].isActive = FALSE]
                   /\ tasks' = [tasks EXCEPT ![i].rule = index, ![i].tab = 1]
              ELSE /\ tasks' = RemoveAt(tasks, i)
                   /\ UNCHANGED state
  /\ last' = NoAction
  /\ UNCHANGED <<ev, det, clock, killed>>

Next ==
  \/ Tick
  \/ \E t \in Tabs, loading \in BOOLEAN : ContentInitialize(t, loading)
  \/ \E t \in Tabs : BodyParsed(t)
  \/ \E t \in Tabs : DomContentLoaded(t)
  \/ \E t \in Tabs : StatusQuery(t)
  \/ \E t \in Tabs : StatusResponse(t)
  \/ \E t \in Tabs, type \in PageEventTypes, isTrusted \in BOOLEAN :
       PageEvent(t, type, isTrusted)
  \/ \E t \in Tabs : PageMutation(t)
  \/ \E rule \in IncomingRules(clock, Len(state.delegationRules) + 1) :
       /\ Len(state.delegationRules) < MaxRules
       /\ Len(tasks) < MaxTasks
       /\ DelegationUpdate(rule)
  \/ \E i \in DOMAIN tasks : DelegationUpdateSend(i)
  \/ Len(tasks) < MaxTasks /\ KillSwitch
  \/ \E i \in DOMAIN tasks : KillSwitchSend(i)
  \/ \E i \in DOMAIN tasks : KillSwitchFinish(i)
  \/ Len(tasks) < MaxTasks /\ ExpirationAlarm
  \/ \E i \in DOMAIN tasks : ExpirationSend(i)

Spec == Init /\ [][Next]_vars

(***************************************************************************)
(* The kill switch on its own: a coordinator that holds a rule, a detected *)
(* agent and its session, content scripts that monitor, and delegation     *)
(* tokens that were issued to agents; the kill switch is invoked, and      *)
(* invoked again.                                                          *)
(***************************************************************************)
IssuedTokens == {issueToken(1, 1, 1), revokeToken(issueToken(1, 1, 2))}

InitKill ==
  /\ det = DetIdle
  /\ clock = 0
  /\ tasks = <<>>
  /\ last = NoAction
  /\ killed = {}
  /\ ev \in [pc : {"tokens"}, tokens : SUBSET IssuedTokens]
  /\ \E rules \in {<<>>} \cup {<<r>> : r \in IncomingRules(0, 1)},
        agents \in {<<>>, <<<<1, 1>>>>}, sessions \in {<<>>, <<<<1, 1>>>>} :
       /\ state = [InitialState EXCEPT !.delegationRules = rules,
                                       !.activeAgents = agents,
                                       !.activeSessions = sessions]
       /\ content \in [1..KillTabs -> {ContentAbsent, startMonitoring(ContentAbsent)}
                                  \cup {OnDelegationUpdate(startMonitoring(ContentAbsent),
                                                           rules[i]) : i \in DOMAIN rules}]

NextKill ==
  \/ Len(tasks) < MaxTasks /\ KillSwitch
  \/ \E i \in DOMAIN tasks : KillSwitchSend(i)
  \/ \E i \in DOMAIN tasks : KillSwitchFinish(i)

SpecKill == InitKill /\ [][NextKill]_vars

\* C19: invoking the kill switch again after it has completed is a no-op: no
\* step of the second invocation changes the rules, the sessions, the
\* active-agent registry, the kill-switch state or a content context.
C19_SecondInvocationIsNoOp ==
  [][(tasks # <<>> /\ tasks[1].kind = "killSwitch" /\ tasks[1].repeat)
       => (state' = state /\ content' = content)]_vars

\* A content context on which the handler of KILL_SWITCH_ACTIVATE has run: no
\* cleanup is registered, no monitor cleanup is held, nothing is monitored
Cleaned(c) ==
  /\ c.registeredCleanups = <<>>
  /\ c.monitorCleanup = NullCleanup
  /\ ~c.monitorState.isMonitoring
  /\ c.listeners = 0
  /\ c.observers = 0

\* C22: a tab to which the kill-switch message cannot be delivered (it has no
\* content script) does not keep the message from any other tab, nor the
\* coordinator from deactivating the rules and ending the sessions: when the
\* kill switch has completed, every tab that has a content script has been
\* cleaned, no rule is active and no session is mapped.
C22_DeliveryFailureDoesNotBlock ==
  (tasks = <<>> /\ state.killSwitch.isActive
     /\ \E t \in Tabs : content[t].phase = "absent") =>
    /\ \A t \in Tabs : content[t].phase # "absent" => Cleaned(content[t])
    /\ ActiveRuleIds(state.delegationRules) = {}
    /\ state.activeSessions = <<>>
    /\ state.activeAgents = <<>>

\* The first tab has no content script, the second one had a monitor with a
\* rule, and the kill switch has completed
C22_Witness ==
  /\ tasks = <<>>
  /\ state.killSwitch.isActive
  /\ state.delegationRules # <<>>
  /\ content[1].phase = "absent"
  /\ content[2].phase = "started"
  /\ content[2].monitorState.activeRule # NoRule
  /\ Cleaned(content[2])

\* C20: after the kill switch has completed, every delegation token that was
\* issued before it has revoked = true.
C20_TokensRevoked ==
  (ev.pc = "tokens" /\ state.killSwitch.isActive /\ tasks = <<>>) =>
    \A token \in ev.tokens : token.revoked

Evaluated(kind) == last.kind = kind /\ ~last.isTrusted /\ last.evaluations > 0

C5_DeniedNeverTakesEffect ==
  (last.kind # "none" /\ ~last.isTrusted /\ last.evaluations > 0) =>
    /\ last.outcome \in {"allowed", "denied"}
    /\ last.outcome = "denied" => (last.vetoed /\ ~last.effect)

\* C6: while the monitor is monitoring, an event flagged isTrusted is not
\* evaluated: it is not vetoed, allowedCount and blockedCount keep their values,
\* and no violation and no timeline entry is produced.
C6_TrustedBypassesEvaluation ==
  (last.kind = "event" /\ last.isTrusted /\ last.monitoring) =>
    /\ last.evaluations = 0
    /\ ~last.vetoed /\ last.effect
    /\ last.allowedDelta = 0 /\ last.blockedDelta = 0
    /\ last.buffered = 0 /\ last.onViolation = 0 /\ last.onAction = 0

\* C6 witness: a trusted event reached an attached handler of a monitoring
\* monitor whose rule is null, which would have vetoed it had it been untrusted.
C6_Witness ==
  /\ last.kind = "event"
  /\ last.isTrusted
  /\ last.monitoring
  /\ last.rule = "null"
  /\ content[last.tab].listeners > 0

\* C7: every untrusted action the monitor evaluates is recorded exactly once: a
\* denial vetoes it, adds one to blockedCount and appends one BoundaryViolation;
\* an allowance adds one to allowedCount and emits one timeline entry.
C7_RecordedExactlyOnce ==
  (last.kind # "none" /\ ~last.isTrusted /\ last.evaluations > 0) =>
    /\ last.outcome = "denied" =>
         /\ last.vetoed
         /\ last.blockedDelta = 1
         /\ last.buffered = 1 /\ last.onViolation = 1
    /\ last.outcome = "allowed" =>
         /\ last.allowedDelta = 1
         /\ last.onAction = 1

\* C8: when the evaluation for an intercepted untrusted event fails (it throws,
\* or the installed rule or its time bound is malformed), the event is denied
\* and vetoed.
C8_FailureDenies ==
  (Evaluated("event")
     /\ (last.outcome = "threw" \/ last.rule \in {"no scope", "invalid expiresAt"})) =>
    (last.outcome = "denied" /\ last.vetoed)

(***************************************************************************)
(* The coordinator's sessions: detections open sessions in the store, the  *)
(* kill switch ends them. ev is the session store of chrome.storage.local: *)
(* sessions, settings.maxSessions, and the number of session ids that      *)
(* crypto.randomUUID() has handed out.                                     *)
(***************************************************************************)
Store(sessions, settings, created) ==
  [pc |-> "storage", sessions |-> sessions, settings |-> settings, created |-> created]

InitSession ==
  /\ det = DetIdle
  /\ clock = 0
  /\ state = InitialState
  /\ tasks = <<>>
  /\ content = [t \in 1..NumTabs |-> startMonitoring(ContentAbsent)]
  /\ last = NoAction
  /\ killed = {}
  /\ ev \in {Store(<<>>, settings, 0) : settings \in {<<>>, <<1>>}}

\* Coordinator handleMessage, case 'DETECTION_RESULT': handleDetection for a
\* message of tab t whose event carries an agent, up to the await of
\* getStorageState in saveSession
HandleDetection(t, agentId) ==
  /\ state' = [state EXCEPT !.activeAgents = MapSet(@, t, agentId)]
  /\ ev' = [ev EXCEPT !.created = @ + 1]
  /\ tasks' = Append(tasks, [kind |-> "detection", pc |-> "get", tab |-> t,
                             session |-> appendEventToSession(
                                           Session(ev.created + 1),
                                           TimelineEvent("detection", 0)),
                             sessions |-> <<>>])
  /\ last' = NoAction
  /\ UNCHANGED <<det, clock, content, killed>>

\* saveSession from the result of getStorageState to the await of
\* chrome.storage.local.set
SaveSessionGet(i) ==
  /\ i \in DOMAIN tasks
  /\ tasks[i].kind = "detection"
  /\ tasks[i].pc = "get"
  /\ tasks' = [tasks EXCEPT ![i].pc = "set",
                            ![i].sessions = saveSession(ev.sessions, tasks[i].session,
                                                        MaxSessionsOf(ev.settings))]
  /\ last' = NoAction
  /\ UNCHANGED <<ev, det, clock, state, content, killed>>

\* The write of saveSession, then handleDetection up to its return:
\* state.activeSessions.set(tabId, updatedSession.id)
SaveSessionSet(i) ==
  /\ i \in DOMAIN tasks
  /\ tasks[i].kind = "detection"
  /\ tasks[i].pc = "set"
  /\ ev' = [ev EXCEPT !.sessions = tasks[i].sessions]
  /\ state' = [state EXCEPT !.activeSessions =
                 MapSet(@, tasks[i].tab, tasks[i].session.id)]
  /\ tasks' = RemoveAt(tasks, i)
  /\ last' = NoAction
  /\ UNCHANGED <<det, clock, content, killed>>

\* The for...of loop of executeKillSwitch over state.activeSessions.entries()
\* steps to its next entry: every entry it has visited is deleted, so the next
\* one is the first that is left; with none left the loop ends and
\* clearAllNotifications is awaited
NextSessionEntry(task, activeSessions) ==
  IF activeSessions = <<>>
  THEN [task EXCEPT !.pc = "clear"]
  ELSE [task EXCEPT !.pc = "get", !.tab = activeSessions[1][1],
                    !.rule = activeSessions[1][2]]

\* executeKillSwitch resumes after saveDelegationRules and enters the loop
KillSwitchSaved(i) ==
  /\ i \in DOMAIN tasks
  /\ tasks[i].kind = "killSwitch"
  /\ tasks[i].pc = "save"
  /\ tasks' = [tasks EXCEPT ![i] = NextSessionEntry(@, state.activeSessions)]
  /\ last' = NoAction
  /\ UNCHANGED <<ev, det, clock, state, content, killed>>

\* updateSession(sessionId, ...) of the loop, from the result of
\* getStorageState: a session that is not in the store ends the call, and the
\* loop deletes the entry and goes on; otherwise the write is awaited.
\* task.tab and task.rule hold the loop's [tabId, sessionId].
EndSessionGet(i) ==
  /\ i \in DOMAIN tasks
  /\ tasks[i].kind = "killSwitch"
  /\ tasks[i].pc = "get"
  /\ IF FindSessionIndex(ev.sessions, tasks[i].rule) = 0
     THEN /\ state' = [state EXCEPT !.activeSessions = MapDelete(@, tasks[i].tab)]
          /\ tasks' = [tasks EXCEPT ![i] = NextSessionEntry(@, state'.activeSessions)]
     ELSE /\ tasks' = [tasks EXCEPT
                         ![i].pc = "set",
                         ![i].sessions =
                            updateSession(ev.sessions, tasks[i].rule,
                                          [session \in Range(ev.sessions) |->
                                             EndSession(session, clock, "kill-switch")])]
          /\ UNCHANGED state
  /\ last' = NoAction
  /\ UNCHANGED <<ev, det, clock, content, killed>>

\* The write of updateSession, then state.activeSessions.delete(tabId) and the
\* next turn of the loop
EndSessionSet(i) ==
  /\ i \in DOMAIN tasks
  /\ tasks[i].kind = "killSwitch"
  /\ tasks[i].pc = "set"
  /\ ev' = [ev EXCEPT !.sessions = tasks[i].sessions]
  /\ state' = [state EXCEPT !.activeSessions = MapDelete(@, tasks[i].tab)]
  /\ tasks' = [tasks EXCEPT ![i] = NextSessionEntry(@, state'.activeSessions)]
  /\ last' = NoAction
  /\ UNCHANGED <<det, clock, content, killed>>

\* executeKillSwitch resumes after clearAllNotifications and returns
KillSwitchReturn(i) ==
  /\ i \in DOMAIN tasks
  /\ tasks[i].kind = "killSwitch"
  /\ tasks[i].pc = "clear"
  /\ tasks' = RemoveAt(tasks, i)
  /\ last' = [kind |-> "killSwitchDone", openBefore |-> tasks[i].openBefore]
  /\ UNCHANGED <<ev, det, clock, state, content, killed>>

NextSession ==
  \/ \E t \in Tabs, agentId \in 1..2 :
       /\ ev.created < MaxDetections
       /\ Len(tasks) < MaxTasks
       /\ HandleDetection(t, agentId)
  \/ \E i \in DOMAIN tasks : SaveSessionGet(i)
  \/ \E i \in DOMAIN tasks : SaveSessionSet(i)
  \/ Len(tasks) < MaxTasks /\ KillSwitch
  \/ \E i \in DOMAIN tasks : KillSwitchSend(i)
  \/ \E i \in DOMAIN tasks : KillSwitchSaved(i)
  \/ \E i \in DOMAIN tasks : EndSessionGet(i)
  \/ \E i \in DOMAIN tasks : EndSessionSet(i)
  \/ \E i \in DOMAIN tasks : KillSwitchReturn(i)

SpecSession == InitSession /\ [][NextSession]_vars

\* C21: after the kill switch completes, every session that was open when it
\* was invoked is stored with endedAt set and endReason = kill-switch, and no
\* tab remains mapped to an open session.
C21_OpenSessionsEnded ==
  last.kind = "killSwitchDone" =>
    /\ \A id \in last.openBefore :
         \E i \in DOMAIN ev.sessions :
           /\ ev.sessions[i].id = id
           /\ ev.sessions[i].endedAt # <<>>
           /\ ev.sessions[i].endReason = "kill-switch"
    /\ \A e \in Range(state.activeSessions) : e[2] \notin OpenSessionIds

(***************************************************************************)
(* executeContentKillSwitch on its own: a content context with any list of *)
(* registered cleanups, those of the content script and ones that throw.   *)
(***************************************************************************)
RegisteredCleanups == SeqsUpTo({"detection", "monitor", "throws"}, MaxCleanups)

InitCleanup ==
  /\ det = DetIdle
  /\ MainIdle
  /\ ev \in [pc : {"input"},
             context : {[c EXCEPT !.registeredCleanups = cleanups] :
                          c \in {[ContentAbsent EXCEPT !.phase = "loading"],
                                 startMonitoring(ContentAbsent),
                                 OnKillSwitchActivate(startMonitoring(ContentAbsent))},
                          cleanups \in RegisteredCleanups},
             result : {NoResult}]

ExecuteContentKillSwitchCall ==
  /\ ev.pc = "input"
  /\ ev' = [ev EXCEPT !.pc = "done", !.result = executeContentKillSwitch(ev.context)]
  /\ UNCHANGED <<det, mainVars>>

SpecCleanup == InitCleanup /\ [][ExecuteContentKillSwitchCall]_vars

\* C23: executeContentKillSwitch never throws: it calls every registered
\* cleanup even when an earlier one throws, leaves the cleanup registry empty,
\* and returns a report, whose listenersRemoved is the number of cleanups that
\* ran without throwing.
C23_ContentKillSwitchNeverThrows ==
  ev.pc = "done" =>
    /\ ~ev.result.threw
    /\ ev.result.called = Len(ev.context.registeredCleanups)
    /\ ev.result.context.registeredCleanups = <<>>
    /\ ev.result.report.listenersRemoved =
         Cardinality({i \in DOMAIN ev.context.registeredCleanups :
                        ~CleanupThrows(ev.context.registeredCleanups[i])})

\* The first cleanup throws and the monitor's cleanup, registered after it, has
\* stopped the monitor all the same
C23_Witness ==
  /\ ev.pc = "done"
  /\ Len(ev.context.registeredCleanups) >= 2
  /\ CleanupThrows(ev.context.registeredCleanups[1])
  /\ ev.context.monitorState.isMonitoring
  /\ ~ev.result.context.monitorState.isMonitoring
  /\ ev.result.called = Len(ev.context.registeredCleanups)

\* C24: changing the rule of a monitoring context (updateActiveRule, including
\* a DELEGATION_UPDATE delivered to the content script) leaves allowedCount,
\* blockedCount and the buffered violations unchanged.
C24_RuleChangeKeepsCounters ==
  [][\A t \in DOMAIN content :
       (content[t].monitorState.isMonitoring
          /\ content'[t].monitorState.activeRule # content[t].monitorState.activeRule) =>
         /\ content'[t].monitorState.allowedCount = content[t].monitorState.allowedCount
         /\ content'[t].monitorState.blockedCount = content[t].monitorState.blockedCount
         /\ content'[t].monitorState.recentViolations =
              content[t].monitorState.recentViolations]_vars

(***************************************************************************)
(* The session store on its own: saveSession and updateSession called one  *)
(* after the other, each call awaited before the next is made.             *)
(***************************************************************************)
InitStore ==
  /\ det = DetIdle
  /\ MainIdle
  /\ ev \in {Store(<<>>, settings, 0) :
               settings \in {<<>>} \cup {<<n>> : n \in 0..(MaxSaves - 1)}}

\* await saveSession(session), for a session with a fresh id
SaveSessionCall ==
  /\ ev.pc = "storage"
  /\ ev.created < MaxSaves
  /\ ev' = [ev EXCEPT !.created = @ + 1,
                      !.sessions = saveSession(@, Session(ev.created + 1),
                                               MaxSessionsOf(ev.settings))]
  /\ UNCHANGED <<det, mainVars>>

\* await updateSession(sessionId, ...) with the updater of handleTabRemoved
UpdateSessionCall(sessionId) ==
  /\ ev.pc = "storage"
  /\ ev' = [ev EXCEPT !.sessions =
              updateSession(@, sessionId,
                            [session \in Range(ev.sessions) |->
                               EndSession(session, clock, "page-unload")])]
  /\ UNCHANGED <<det, mainVars>>

NextStore ==
  \/ SaveSessionCall
  \/ \E sessionId \in 1..MaxSaves : UpdateSessionCall(sessionId)

SpecStore == InitStore /\ [][NextStore]_vars

\* The smaller of two numbers
Min(a, b) == IF a < b THEN a ELSE b

\* C25: after any sequence of saveSession calls the store holds at most
\* maxSessions (default 5) sessions, newest first, the dropped ones being the
\* oldest: with created sessions saved so far it holds exactly the
\* min(created, maxSessions) newest, in the order of their creation reversed.
C25_StoreKeepsNewest ==
  ev.pc = "storage" =>
    /\ Len(ev.sessions) = Min(ev.created, MaxSessionsOf(ev.settings))
    /\ \A i \in DOMAIN ev.sessions : ev.sessions[i].id = ev.created - i + 1

\* Seven sessions were saved against the default maximum of 5
C25_Witness ==
  /\ ev.pc = "storage"
  /\ ev.settings = <<>>
  /\ ev.created = 7
  /\ [i \in DOMAIN ev.sessions |-> ev.sessions[i].id] = <<7, 6, 5, 4, 3>>

(***************************************************************************)
(* The coordinator with handlers that overlap: a delegation update, a kill *)
(* switch and an expiry check can each be suspended at an await while      *)
(* another one runs. The content scripts are monitoring; the pages do      *)
(* nothing.                                                                *)
(***************************************************************************)
InitCoord ==
  /\ ev = EvIdle
  /\ det = DetIdle
  /\ clock = 0
  /\ state = InitialState
  /\ tasks = <<>>
  /\ content = [t \in 1..NumTabs |-> startMonitoring(ContentAbsent)]
  /\ last = NoAction
  /\ killed = {}

NextCoord ==
  \/ Tick
  \/ \E t \in Tabs : StatusQuery(t)
  \/ \E t \in Tabs : StatusResponse(t)
  \/ \E rule \in IncomingRules(clock, Len(state.delegationRules) + 1) :
       /\ Len(state.delegationRules) < CoordRules
       /\ Len(tasks) < CoordTasks
       /\ DelegationUpdate(rule)
  \/ \E i \in DOMAIN tasks : DelegationUpdateSend(i)
  \/ Len(tasks) < CoordTasks /\ KillSwitch
  \/ \E i \in DOMAIN tasks : KillSwitchSend(i)
  \/ \E i \in DOMAIN tasks : KillSwitchFinish(i)
  \/ Len(tasks) < CoordTasks /\ ExpirationAlarm
  \/ \E i \in DOMAIN tasks : ExpirationSend(i)

SpecCoord == InitCoord /\ [][NextCoord]_vars

\* C26: after any sequence of delegation updates, expiry checks and kill
\* switches handled by the coordinator, at most one rule of its rule list has
\* isActive = true.
C26_AtMostOneActiveRule ==
  Cardinality({i \in DOMAIN state.delegationRules : state.delegationRules[i].isActive}) <= 1

\* A second rule was added while the first was active: the first is inactive
\* and the second active
C26_Witness ==
  /\ Len(state.delegationRules) = 2
  /\ ~state.delegationRules[1].isActive
  /\ state.delegationRules[2].isActive
  /\ 1 \notin killed
  /\ state.delegationRules[1].scope # NoScope
  /\ ~isTimeBoundExpired(state.delegationRules[1].scope.timeBound, clock)

(***************************************************************************)
(* Alert classifier (alerts/boundary.ts). The repository's files hold only *)
(* the declarations of createBoundaryAlert and classifyViolationSeverity;  *)
(* the definitions below follow the specification, the base severities and *)
(* the sensitivity patterns being those of boundary.test.ts and of the     *)
(* architecture reference.                                                 *)
(***************************************************************************)
\* AlertSeverity, lowest first
SEVERITY_ORDER == <<"low", "medium", "high", "critical">>

severityRank(severity) == CHOOSE i \in DOMAIN SEVERITY_ORDER : SEVERITY_ORDER[i] = severity

\* The capabilities whose base severity is stated
ClassifiedCapabilities ==
  {"submit-form", "execute-script", "click", "modify-dom", "navigate", "read-dom",
   "open-tab"}

\* The static base map: submit-form/execute-script critical, click/modify-dom
\* high, navigate medium, read-dom/open-tab low
baseSeverity(capability) ==
  IF capability \in {"submit-form", "execute-script"} THEN "critical"
  ELSE IF capability \in {"click", "modify-dom"} THEN "high"
  ELSE IF capability = "navigate" THEN "medium"
  ELSE "low"

\* /\.bank\./i, /\.gov\./i, /paypal/i, /stripe/i, /\.financial/i,
\* /healthcare/i, /\.mil\./i as the substrings they look for
SENSITIVE_PATTERNS ==
  {<<".", "b", "a", "n", "k", ".">>, <<".", "g", "o", "v", ".">>, <<"p", "a", "y", "p", "a", "l">>,
   <<"s", "t", "r", "i", "p", "e">>, <<".", "f", "i", "n", "a", "n", "c", "i", "a", "l">>,
   <<"h", "e", "a", "l", "t", "h", "c", "a", "r", "e">>, <<".", "m", "i", "l", ".">>}

\* The flag i: the target in lower case; P is the one upper-case letter of the
\* targets below
toLowerCase(str) == [i \in DOMAIN str |-> IF str[i] = "P" THEN "p" ELSE str[i]]

isSensitiveUrl(url) == \E pattern \in SENSITIVE_PATTERNS : Includes(toLowerCase(url), pattern, 1)

\* One level up; critical has no level above it
upgradeSeverity(severity) ==
  IF severity = "critical" THEN "critical"
  ELSE SEVERITY_ORDER[severityRank(severity) + 1]

classifyViolationSeverity(capability, url) ==
  IF isSensitiveUrl(url) THEN upgradeSeverity(baseSeverity(capability))
  ELSE baseSeverity(capability)

\* An alert that decides the override on the base severity, before the upgrade
createBoundaryAlertBaseOverride(violation) ==
  [violation |-> violation,
   severity |-> classifyViolationSeverity(violation.attemptedAction, violation.url),
   allowOneTimeOverride |-> baseSeverity(violation.attemptedAction) \in {"low", "medium"},
   acknowledged |-> FALSE]

\* createBoundaryAlert(violation, rule): severity, allowOneTimeOverride for
\* low and medium, acknowledged: false; title and message are left out
createBoundaryAlert(violation) ==
  LET severity == classifyViolationSeverity(violation.attemptedAction, violation.url)
  IN  [violation |-> violation, severity |-> severity,
       allowOneTimeOverride |-> severity \in {"low", "medium"},
       acknowledged |-> FALSE]

AlertUrls ==
  {<<"e", "x", "a", "m", "p", "l", "e", ".", "c", "o", "m">>,
   <<"m", "y", ".", "b", "a", "n", "k", ".", "c", "o", "m">>,
   <<"b", "a", "n", "k", ".", "c", "o", "m">>,
   <<"s", "e", "c", "u", "r", "e", ".", "g", "o", "v", ".", "u", "k">>,
   <<"P", "a", "y", "P", "a", "l", ".", "c", "o", "m">>,
   <<"s", "t", "r", "i", "p", "e", ".", "c", "o", "m">>,
   <<"x", ".", "f", "i", "n", "a", "n", "c", "i", "a", "l">>,
   <<"h", "e", "a", "l", "t", "h", "c", "a", "r", "e", ".", "i", "o">>,
   <<"a", ".", "m", "i", "l", ".", "b">>}

NoAlert == [null |-> TRUE]

InitAlert ==
  /\ det = DetIdle
  /\ MainIdle
  /\ ev \in [pc : {"input"},
             violation : [attemptedAction : ClassifiedCapabilities, url : AlertUrls],
             alert : {NoAlert}]

CreateBoundaryAlertCall ==
  /\ ev.pc = "input"
  /\ ev' = [ev EXCEPT !.pc = "done", !.alert = createBoundaryAlert(ev.violation)]
  /\ UNCHANGED <<det, mainVars>>

SpecAlert == InitAlert /\ [][CreateBoundaryAlertCall]_vars

\* C27: a boundary alert permits a one-time override only when its severity,
\* after the one-level upgrade applied to sensitive targets, is low or medium;
\* an alert whose severity is high or critical is never overridable.
C27_OverrideOnlyLowMedium ==
  ev.pc = "done" =>
    /\ ev.alert.severity =
         classifyViolationSeverity(ev.violation.attemptedAction, ev.violation.url)
    /\ ev.alert.allowOneTimeOverride => ev.alert.severity \in {"low", "medium"}
    /\ ev.alert.severity \in {"high", "critical"} => ~ev.alert.allowOneTimeOverride

\* A capability whose base severity is medium, on a sensitive target: the
\* alert is high and not overridable
C27_Witness ==
  /\ ev.pc = "done"
  /\ baseSeverity(ev.violation.attemptedAction) = "medium"
  /\ isSensitiveUrl(ev.violation.url)
  /\ ev.alert.severity = "high"
  /\ ~ev.alert.allowOneTimeOverride

\* C28: after the kill switch has been delivered to a context, no monitor,
\* event listener or observer started in that context is still running,
\* whatever delegation updates and earlier kill switches preceded it: the step
\* that delivers KILL_SWITCH_ACTIVATE to a tab with a content script leaves it
\* with no listener, no observer and a monitor that is off.
C28_NothingRunsAfterKill ==
  [][\A i \in DOMAIN tasks :
       (/\ tasks[i].kind = "killSwitch"
        /\ tasks[i].pc = "send"
        /\ content[tasks[i].tab].phase # "absent"
        /\ content' = SendKillSwitchActivate(content, tasks[i].tab)
        /\ tasks' # tasks
        /\ Len(tasks') = Len(tasks)
        /\ tasks'[i] # tasks[i]) =>
         /\ content'[tasks[i].tab].listeners = 0
         /\ content'[tasks[i].tab].observers = 0
         /\ ~content'[tasks[i].tab].monitorState.isMonitoring]_vars

\* C29: at every await point of the kill-switch sweep the coordinator's state
\* is self-consistent: while an executeKillSwitch is suspended, from the start
\* of its broadcast on, killSwitch.isActive is true and no rule is active, so
\* that no handler that runs in between sees an active delegation together
\* with a kill switch in progress.
C29_ConsistentDuringSweep ==
  \A i \in DOMAIN tasks :
    tasks[i].kind = "killSwitch" =>
      /\ state.killSwitch.isActive
      /\ FindActiveRule(state.delegationRules) = NoRule

(***************************************************************************)
(* A delegation update and a kill switch that overlap, over KillTabs tabs  *)
(* whose content scripts are monitoring: each of the two handlers is       *)
(* suspended at the await of its broadcast loop while the other one runs.  *)
(***************************************************************************)
InitRace ==
  /\ ev = EvIdle
  /\ det = DetIdle
  /\ clock = 0
  /\ state = InitialState
  /\ tasks = <<>>
  /\ content = [t \in 1..KillTabs |-> startMonitoring(ContentAbsent)]
  /\ last = NoAction
  /\ killed = {}

NextRace ==
  \/ \E rule \in IncomingRules(clock, Len(state.delegationRules) + 1) :
       /\ Len(state.delegationRules) < CoordRules
       /\ Len(tasks) < CoordTasks
       /\ DelegationUpdate(rule)
  \/ \E i \in DOMAIN tasks : DelegationUpdateSend(i)
  \/ Len(tasks) < CoordTasks /\ KillSwitch
  \/ \E i \in DOMAIN tasks : KillSwitchSend(i)
  \/ \E i \in DOMAIN tasks : KillSwitchFinish(i)

SpecRace == InitRace /\ [][NextRace]_vars

\* C30: when a delegation update and a kill switch have been processed
\* concurrently and both have finished, no content context is monitoring with
\* an active rule that the kill switch revoked: the DELEGATION_UPDATE still in
\* flight has not re-armed a context that had received the kill switch.
C30_NoRearmAfterKill ==
  tasks = <<>> =>
    \A t \in Tabs :
      ~(/\ content[t].monitorState.isMonitoring
        /\ content[t].monitorState.activeRule # NoRule
        /\ content[t].monitorState.activeRule.isActive
        /\ content[t].monitorState.activeRule.id \in killed)

\* C31: after a content context has executed the kill switch, and until a new
\* active delegation rule is installed there, an untrusted event dispatched in
\* that context is vetoed: it does not take effect.
C31_VetoedAfterKill ==
  (/\ last.kind = "event"
   /\ ~last.isTrusted
   /\ content[last.tab].phase = "started"
   /\ content[last.tab].monitorCleanup = NullCleanup
   /\ \/ content[last.tab].monitorState.activeRule = NoRule
      \/ ~content[last.tab].monitorState.activeRule.isActive) =>
     last.vetoed /\ ~last.effect

\* onDetectionResult(verdict) of the content script, the onDetection callback
\* of its detection monitor: whether it sends DETECTION_RESULT to the
\* coordinator. A verdict whose agent is null has agentId 0.
onDetectionResult(verdict) == verdict.agentDetected /\ verdict.agentId # 0

\* C32: a detection in which only behavioral signals fired has a verdict with
\* agentDetected = true and an agent of type unknown, and it is reported to
\* the coordinator.
C32_BehavioralOnlyReported ==
  (/\ det.pc = "rechecked"
   /\ det.verdict.agentDetected
   /\ DetectedResults(det.page) = <<>>) =>
     /\ det.verdict.agentId # 0
     /\ det.verdict.agentType = "unknown"
     /\ det.onDetection
     /\ onDetectionResult(det.verdict)

\* C33: while the detection monitor runs, an agent whose signals persist
\* unchanged is reported once: when the initial sweep has reported the agent,
\* a periodic re-check that finds it again on the same page does not report
\* it to the coordinator again.
C33_ReportedOnce ==
  (/\ det.pc = "rechecked"
   /\ runDetectionSweep(det.page, det.cfg, 1).agentDetected) =>
     ~(det.onDetection /\ onDetectionResult(det.verdict))

\* C34: at any time each tab has at most one open session, so the store never
\* holds more sessions without endedAt than there are tabs: a new detection
\* for a tab that has an open session does not leave the earlier one open.
C34_OneOpenSessionPerTab ==
  ev.pc = "storage" => Cardinality(OpenSessionIds) <= Cardinality(Tabs)

\* C35: whenever the coordinator's killSwitch.isActive is true, no rule of its
\* rule list is active: no state reports both an active kill switch and an
\* active delegation.
C35_KillSwitchExcludesActiveRule ==
  state.killSwitch.isActive =>
    \A i \in DOMAIN state.delegationRules : ~state.delegationRules[i].isActive

\* C36: once the broadcasts of a sequence of delegation updates have all been
\* delivered (no kill switch having been invoked), the rule every content
\* context has installed as its active rule is the rule the coordinator holds
\* as active, or none when it holds none; two overlapping updates leave no
\* context with another rule.
C36_ContextsConverge ==
  (tasks = <<>> /\ ~state.killSwitch.isActive) =>
    \A t \in Tabs :
      content[t].phase # "absent" =>
        LET installed == content[t].monitorState.activeRule
        IN  (IF installed # NoRule /\ installed.isActive THEN installed ELSE NoRule)
              = FindActiveRule(state.delegationRules)

(***************************************************************************)
(* Expiry as a liveness property. The coordinator with one delegation rule *)
(* over KillTabs monitoring tabs; the clock, the delegation update and the *)
(* kill switch are the environment's. The delegation-check alarm is        *)
(* periodic, so a check that stays due is eventually run, and a handler    *)
(* that is suspended at an await is eventually resumed.                    *)
(***************************************************************************)
NextExpiry ==
  \/ Tick
  \/ \E rule \in IncomingRules(clock, Len(state.delegationRules) + 1) :
       /\ Len(state.delegationRules) < MaxRules
       /\ Len(tasks) < CoordTasks
       /\ DelegationUpdate(rule)
  \/ \E i \in DOMAIN tasks : DelegationUpdateSend(i)
  \/ Len(tasks) < CoordTasks /\ KillSwitch
  \/ \E i \in DOMAIN tasks : KillSwitchSend(i)
  \/ \E i \in DOMAIN tasks : KillSwitchFinish(i)
  \/ Len(tasks) < CoordTasks /\ ExpirationAlarm
  \/ \E i \in DOMAIN tasks : ExpirationSend(i)

SpecExpiry ==
  /\ InitRace
  /\ [][NextExpiry]_vars
  /\ WF_vars(Len(tasks) < CoordTasks /\ ExpirationAlarm)
  /\ WF_vars(\E i \in DOMAIN tasks : DelegationUpdateSend(i))
  /\ WF_vars(\E i \in DOMAIN tasks : KillSwitchSend(i))
  /\ WF_vars(\E i \in DOMAIN tasks : KillSwitchFinish(i))
  /\ WF_vars(\E i \in DOMAIN tasks : ExpirationSend(i))

\* The coordinator holds rule number i as active although its time bound has
\* expired
ExpiredActive(i) ==
  /\ i \in DOMAIN state.delegationRules
  /\ state.delegationRules[i].isActive
  /\ state.delegationRules[i].scope # NoScope
  /\ isTimeBoundExpired(state.delegationRules[i].scope.timeBound, clock)

\* The content context of tab t has an active rule installed whose time bound
\* has expired
ExpiredInstalled(t) ==
  LET installed == content[t].monitorState.activeRule
  IN  /\ installed # NoRule
      /\ installed.isActive
      /\ installed.scope # NoScope
      /\ isTimeBoundExpired(installed.scope.timeBound, clock)

\* C37: an active rule whose time bound has expired is eventually marked
\* inactive by the coordinator, and no content context keeps an expired rule
\* installed as its active rule: a context that holds one eventually holds it
\* no more.
C37_ExpiredRuleLeaves ==
  /\ \A i \in 1..MaxRules : ExpiredActive(i) ~> ~ExpiredActive(i)
  /\ \A t \in 1..KillTabs : ExpiredInstalled(t) ~> ~ExpiredInstalled(t)

\* The coordinator's half of C37 on its own
ExpiredRuleDeactivated == \A i \in 1..MaxRules : ExpiredActive(i) ~> ~ExpiredActive(i)

(***************************************************************************)
(* The session timeline. The coordinator accepts AGENT_ACTION and          *)
(* BOUNDARY_CHECK_REQUEST messages of a tab, whose handlers start an       *)
(* updateSession and do not wait for it, next to detections and to the     *)
(* removal of the tab. Every saveSession and updateSession reads the whole *)
(* session list, changes its copy and writes the whole list back, with an  *)
(* await in between. ev is the session store together with the number of   *)
(* timeline events accepted so far; accepted event number n has n as id.   *)
(***************************************************************************)
TimelineStore(sessions, settings, created, accepted) ==
  [pc |-> "storage", sessions |-> sessions, settings |-> settings, created |-> created,
   accepted |-> accepted]

\* state.recentAlerts holds at most this many alerts
RecentAlertsMax == 20

\* The states of the coordinator at which the messages arrive: no rule yet, or
\* one active rule installed by a delegation update that has completed
InitTimeline ==
  /\ det = DetIdle
  /\ clock = 0
  /\ state \in {InitialState,
                [InitialState EXCEPT !.delegationRules =
                   <<createRuleFromPreset("readOnly", <<>>, <<DurationTicks>>, 0, 1)>>]}
  /\ tasks = <<>>
  /\ content = [t \in 1..NumTabs |-> startMonitoring(ContentAbsent)]
  /\ last = NoAction
  /\ killed = {}
  /\ ev = TimelineStore(<<>>, <<>>, 0, 0)

\* The task of an updateSession(sessionId, updater) that has been called and
\* is suspended in getStorageState; updater is "append" for
\* (session) => appendEventToSession(session, event) and "end" for the updater
\* of handleTabRemoved
UpdateTask(t, sessionId, updater, event) ==
  [kind |-> "update", pc |-> "get", tab |-> t, rule |-> sessionId, updater |-> updater,
   event |-> event, sessions |-> <<>>]

\* Coordinator handleMessage, case 'AGENT_ACTION': handleAgentAction, which
\* returns without waiting for updateSession
HandleAgentAction(t) ==
  /\ content[t].phase # "absent"
  /\ MapHas(state.activeSessions, t)
  /\ ev' = [ev EXCEPT !.accepted = @ + 1]
  /\ tasks' = Append(tasks, UpdateTask(t, MapGet(state.activeSessions, t), "append",
                                       TimelineEvent("action", ev.accepted + 1)))
  /\ last' = NoAction
  /\ UNCHANGED <<det, clock, state, content, killed>>

\* What handleBoundaryViolation did with a violation: whether it pushed an
\* alert and whether it started the update that logs the timeline event
ViolationHandled(t, activeRule, session, alerted, logged) ==
  [kind |-> "violation", tab |-> t, activeRule |-> activeRule, session |-> session,
   alerted |-> alerted, logged |-> logged]

\* Coordinator handleMessage, case 'BOUNDARY_CHECK_REQUEST':
\* handleBoundaryViolation(tabId, violation)
HandleBoundaryViolation(t, violation) ==
  /\ content[t].phase # "absent"
  /\ LET activeRule == FindActiveRule(state.delegationRules)
         session == MapHas(state.activeSessions, t)
         pushed == Append(state.recentAlerts, createBoundaryAlert(violation))
     IN  IF activeRule = NoRule
         THEN /\ last' = ViolationHandled(t, FALSE, session, FALSE, FALSE)
              /\ UNCHANGED <<ev, state, tasks>>
         ELSE /\ state' = [state EXCEPT !.recentAlerts =
                             IF Len(pushed) > RecentAlertsMax THEN Tail(pushed) ELSE pushed]
              /\ IF session
                 THEN /\ ev' = [ev EXCEPT !.accepted = @ + 1]
                      /\ tasks' = Append(tasks,
                                    UpdateTask(t, MapGet(state.activeSessions, t), "append",
                                               TimelineEvent("boundary-violation",
                                                             ev.accepted + 1)))
                 ELSE UNCHANGED <<ev, tasks>>
              /\ last' = ViolationHandled(t, TRUE, session, TRUE, session)
  /\ UNCHANGED <<det, clock, content, killed>>

\* chrome.tabs.onRemoved: handleTabRemoved(tabId) up to the await of
\* getStorageState in updateSession, or to its end when the tab has no session.
\* The tab's content script is gone.
HandleTabRemoved(t) ==
  /\ content[t].phase # "absent"
  /\ content' = [content EXCEPT ![t] = ContentAbsent]
  /\ IF MapHas(state.activeSessions, t)
     THEN /\ tasks' = Append(tasks, UpdateTask(t, MapGet(state.activeSessions, t), "end",
                                               NoEvent))
          /\ UNCHANGED state
     ELSE /\ state' = [state EXCEPT !.activeAgents = MapDelete(@, t)]
          /\ UNCHANGED tasks
  /\ last' = NoAction
  /\ UNCHANGED <<ev, det, clock, killed>>

\* handleTabRemoved after its updateSession has returned:
\* state.activeSessions.delete(tabId); state.activeAgents.delete(tabId)
AfterUpdate(task) ==
  IF task.updater = "end"
  THEN [state EXCEPT !.activeSessions = MapDelete(@, task.tab),
                     !.activeAgents = MapDelete(@, task.tab)]
  ELSE state

\* updateSession from the result of getStorageState: a session that is not in
\* the list ends the call without a write; otherwise the changed list is
\* handed to chrome.storage.local.set, which is awaited
UpdateSessionGet(i) ==
  /\ i \in DOMAIN tasks
  /\ tasks[i].kind = "update"
  /\ tasks[i].pc = "get"
  /\ IF FindSessionIndex(ev.sessions, tasks[i].rule) = 0
     THEN /\ tasks' = RemoveAt(tasks, i)
          /\ state' = AfterUpdate(tasks[i])
     ELSE /\ tasks' = [tasks EXCEPT
                         ![i].pc = "set",
                         ![i].sessions =
                            updateSession(ev.sessions, tasks[i].rule,
                                          [session \in Range(ev.sessions) |->
                                             IF tasks[i].updater = "append"
                                             THEN appendEventToSession(session,
                                                                       tasks[i].event)
                                             ELSE EndSession(session, clock,
                                                             "page-unload")])]
          /\ UNCHANGED state
  /\ last' = NoAction
  /\ UNCHANGED <<ev, det, clock, content, killed>>

\* The write of updateSession, and what its caller does when it resumes
UpdateSessionSet(i) ==
  /\ i \in DOMAIN tasks
  /\ tasks[i].kind = "update"
  /\ tasks[i].pc = "set"
  /\ ev' = [ev EXCEPT !.sessions = tasks[i].sessions]
  /\ state' = AfterUpdate(tasks[i])
  /\ tasks' = RemoveAt(tasks, i)
  /\ last' = NoAction
  /\ UNCHANGED <<det, clock, content, killed>>

\* The violation a content script reports for a vetoed click on its page
ReportedViolations(t) ==
  {[attemptedAction |-> "click", blockingRuleId |-> 0, url |-> PageUrl(t)]}

NextTimeline ==
  \/ \E t \in Tabs :
       /\ content[t].phase # "absent"
       /\ ev.created < MaxDetections
       /\ Len(tasks) < CoordTasks
       /\ HandleDetection(t, 1)
  \/ \E i \in DOMAIN tasks : SaveSessionGet(i)
  \/ \E i \in DOMAIN tasks : SaveSessionSet(i)
  \/ \E t \in Tabs :
       /\ ev.accepted < MaxEvents
       /\ Len(tasks) < CoordTasks
       /\ HandleAgentAction(t)
  \/ \E t \in Tabs : \E violation \in ReportedViolations(t) :
       /\ ev.accepted < MaxEvents
       /\ Len(state.recentAlerts) < MaxEvents
       /\ Len(tasks) < CoordTasks
       /\ HandleBoundaryViolation(t, violation)
  \/ \E t \in Tabs : Len(tasks) < CoordTasks /\ HandleTabRemoved(t)
  \/ \E i \in DOMAIN tasks : UpdateSessionGet(i)
  \/ \E i \in DOMAIN tasks : UpdateSessionSet(i)

SpecTimeline == InitTimeline /\ [][NextTimeline]_vars

\* C38: once a stored session has been ended it stays ended: no write to the
\* store changes the endedAt, the endReason or the events of a session that was
\* stored with endedAt set.
C38_EndedStaysEnded ==
  [][\A i \in DOMAIN ev.sessions :
       ev.sessions[i].endedAt # <<>> =>
         \A j \in DOMAIN ev'.sessions :
           ev'.sessions[j].id = ev.sessions[i].id => ev'.sessions[j] = ev.sessions[i]]_vars

\* C39: once all storage operations have completed, every event the
\* coordinator accepted for an open session is in a stored session's timeline.
C39_AcceptedEventsStored ==
  tasks = <<>> =>
    \A n \in 1..ev.accepted :
      \E i \in DOMAIN ev.sessions :
        \E j \in DOMAIN ev.sessions[i].events : ev.sessions[i].events[j].n = n

\* C40: every BoundaryViolation a content context reports is recorded by the
\* coordinator as an alert and, when the tab has a session, as a timeline
\* event, whether or not a delegation rule is active.
C40_ViolationRecorded ==
  last.kind = "violation" => (last.alerted /\ (last.session => last.logged))

=============================================================================
